---------------------------- MODULE Spec2Model ----------------------------
(***************************************************************************)
(* A model of the SKU curation engine (hitl/utils/alias_cleaning.py,       *)
(* src/transform/sku_curation_cli.py) and of the seed merger               *)
(* (hitl/generate_sku_seed.py).                                            *)
(*                                                                         *)
(* Text is a sequence of one-character strings, so that lowercasing,       *)
(* punctuation stripping, tokenizing, edit distance and the similarity     *)
(* ratio are computed character by character as the code computes them.    *)
(***************************************************************************)
EXTENDS Integers, Sequences, FiniteSets, TLC

(***************************************************************************)
(* Characters.                                                             *)
(***************************************************************************)

\* The characters of the model in code-point order (Python compares strings
\* by code point): whitespace, punctuation, digits, upper case, "_", lower case.
Ascii ==
    << "\t", " ", "!", "(", ")", ",", "-", ".", "/",
       "0", "1", "2", "3", "4", "5", "6", "7", "8", "9",
       "A", "B", "C", "D", "E", "F", "G", "H", "I", "J", "K", "L", "M",
       "N", "O", "P", "Q", "R", "S", "T", "U", "V", "W", "X", "Y", "Z",
       "_",
       "a", "b", "c", "d", "e", "f", "g", "h", "i", "j", "k", "l", "m",
       "n", "o", "p", "q", "r", "s", "t", "u", "v", "w", "x", "y", "z" >>

Chars == { Ascii[i] : i \in 1..Len(Ascii) }

\* ord(c)
Code == [ c \in Chars |-> CHOOSE i \in 1..Len(Ascii) : Ascii[i] = c ]

IsSpace(c) == c \in { "\t", " " }
IsDigit(c) == Code[c] >= Code["0"] /\ Code[c] <= Code["9"]
IsUpper(c) == Code[c] >= Code["A"] /\ Code[c] <= Code["Z"]
IsLower(c) == Code[c] >= Code["a"] /\ Code[c] <= Code["z"]
\* str.isalpha() on one character
IsAlpha(c) == IsUpper(c) \/ IsLower(c)
\* the regex class \w
IsWord(c) == IsAlpha(c) \/ IsDigit(c) \/ c = "_"

\* str.lower() on one character
LowerChar(c) == IF IsUpper(c) THEN Ascii[Code[c] - Code["A"] + Code["a"]] ELSE c

(***************************************************************************)
(* Strings: sequences of characters.                                       *)
(***************************************************************************)

\* s.lower()
Lower(s) == [ i \in 1..Len(s) |-> LowerChar(s[i]) ]

\* s < t in Python's string order
RECURSIVE StrLess(_, _)
StrLess(s, t) ==
    IF t = <<>> THEN FALSE
    ELSE IF s = <<>> THEN TRUE
    ELSE IF s[1] # t[1] THEN Code[s[1]] < Code[t[1]]
    ELSE StrLess(Tail(s), Tail(t))

\* s.split(): the maximal runs of non-whitespace characters
RECURSIVE SplitFrom(_, _, _)
SplitFrom(s, i, cur) ==
    IF i > Len(s) THEN (IF cur = <<>> THEN <<>> ELSE <<cur>>)
    ELSE IF IsSpace(s[i])
         THEN (IF cur = <<>> THEN <<>> ELSE <<cur>>) \o SplitFrom(s, i + 1, <<>>)
         ELSE SplitFrom(s, i + 1, Append(cur, s[i]))

Split(s) == SplitFrom(s, 1, <<>>)

\* sep.join(parts)
RECURSIVE Join(_, _)
Join(sep, parts) ==
    IF parts = <<>> THEN <<>>
    ELSE IF Len(parts) = 1 THEN parts[1]
    ELSE parts[1] \o sep \o Join(sep, Tail(parts))

\* s.strip() is empty: the string has no non-whitespace character
IsBlank(s) == \A i \in 1..Len(s) : IsSpace(s[i])

\* s.strip()
RECURSIVE LStrip(_)
LStrip(s) == IF s # <<>> /\ IsSpace(s[1]) THEN LStrip(Tail(s)) ELSE s

RECURSIVE RStrip(_)
RStrip(s) ==
    IF s # <<>> /\ IsSpace(s[Len(s)]) THEN RStrip(SubSeq(s, 1, Len(s) - 1)) ELSE s

Strip(s) == RStrip(LStrip(s))

\* the set of elements of a sequence
Range(s) == { s[i] : i \in 1..Len(s) }

\* Counter(s)[x]: the number of positions of s that hold x
Count(s, x) == Cardinality({ i \in 1..Len(s) : s[i] = x })

\* lst for lst in lists, flattened
RECURSIVE Flatten(_)
Flatten(lists) == IF lists = <<>> THEN <<>> ELSE lists[1] \o Flatten(Tail(lists))

SP == <<" ">>

Min2(a, b) == IF a <= b THEN a ELSE b

RECURSIVE Gcd(_, _)
Gcd(a, b) == IF b = 0 THEN a ELSE Gcd(b, a % b)

(***************************************************************************)
(* alias_cleaning.py: core utils.                                          *)
(***************************************************************************)

\* The members of sklearn's ENGLISH_STOP_WORDS that the model's texts can
\* contain; no other token of the model's word lists is in that set.
ENGLISH_STOP_WORDS ==
    { <<"t","h","e">>, <<"a">>, <<"a","n">>, <<"a","n","d">>, <<"o","r">>,
      <<"b","u","t">>, <<"t","h","i","s">>, <<"i","s">>, <<"o","f">> }

\* _PUNCT_RE.sub(" ", s): every maximal run of characters that are neither
\* word characters nor whitespace becomes one space
RECURSIVE PunctSubFrom(_, _, _)
PunctSubFrom(s, i, inRun) ==
    IF i > Len(s) THEN <<>>
    ELSE IF ~IsWord(s[i]) /\ ~IsSpace(s[i])
         THEN (IF inRun THEN <<>> ELSE SP) \o PunctSubFrom(s, i + 1, TRUE)
         ELSE <<s[i]>> \o PunctSubFrom(s, i + 1, FALSE)

PunctSub(s) == PunctSubFrom(s, 1, FALSE)

\* _WS_RE.sub(" ", s): every maximal run of whitespace becomes one space
RECURSIVE WsSubFrom(_, _, _)
WsSubFrom(s, i, inRun) ==
    IF i > Len(s) THEN <<>>
    ELSE IF IsSpace(s[i])
         THEN (IF inRun THEN <<>> ELSE SP) \o WsSubFrom(s, i + 1, TRUE)
         ELSE <<s[i]>> \o WsSubFrom(s, i + 1, FALSE)

WsSub(s) == WsSubFrom(s, 1, FALSE)

NotStopWord(t) == t # <<>> /\ t \notin ENGLISH_STOP_WORDS

\* the stop words dropped before the text is lower-cased and cleaned
_normalizeStopWordsFirst(s) ==
    LET s0 == Join(SP, SelectSeq(Split(s), NotStopWord))
    IN  Join(SP, Split(Strip(WsSub(PunctSub(Lower(s0))))))

_normalize(s) ==
    LET s1 == Lower(s)
        s2 == PunctSub(s1)
        s3 == Strip(WsSub(s2))
    IN  Join(SP, SelectSeq(Split(s3), NotStopWord))

\* every character a word character
StrIsAlphaOrDigit(t) == t # <<>> /\ \A i \in 1..Len(t) : IsWord(t[i])

\* t.isalpha(): non-empty and every character alphabetic
StrIsAlpha(t) == t # <<>> /\ \A i \in 1..Len(t) : IsAlpha(t[i])

_norm_tokens(s) == SelectSeq(Split(_normalize(s)), StrIsAlpha)

(***************************************************************************)
(* rapidfuzz: Levenshtein.distance and fuzz.token_sort_ratio.              *)
(***************************************************************************)

\* One row of the edit-distance table: prev is the row of the prefix before
\* character c, as a sequence over the prefixes of t (index j+1 for length j).
RECURSIVE LevRow(_, _, _, _)
LevRow(prev, c, t, row) ==
    LET j == Len(row)
    IN  IF j > Len(t) THEN row
        ELSE LevRow(prev, c, t,
                    Append(row,
                           Min2(Min2(prev[j + 1] + 1, row[j] + 1),
                                prev[j] + (IF c = t[j] THEN 0 ELSE 1))))

RECURSIVE LevFrom(_, _, _, _)
LevFrom(s, t, i, prev) ==
    IF i > Len(s) THEN prev[Len(t) + 1]
    ELSE LevFrom(s, t, i + 1, LevRow(prev, s[i], t, <<prev[1] + 1>>))

\* Levenshtein.distance(s, t): insertions, deletions, substitutions, weight 1
Levenshtein(s, t) == LevFrom(s, t, 1, [ j \in 1..(Len(t) + 1) |-> j - 1 ])

\* One row of the longest-common-subsequence table.
RECURSIVE LcsRow(_, _, _, _)
LcsRow(prev, c, t, row) ==
    LET j == Len(row)
    IN  IF j > Len(t) THEN row
        ELSE LcsRow(prev, c, t,
                    Append(row,
                           IF c = t[j] THEN prev[j] + 1
                           ELSE IF prev[j + 1] >= row[j] THEN prev[j + 1] ELSE row[j]))

\* The rows from character i of s on; the last entry of the last row is the
\* length.  It cannot grow once it has reached len(t).
RECURSIVE LcsFrom(_, _, _, _)
LcsFrom(s, t, i, prev) ==
    IF i > Len(s) \/ prev[Len(t) + 1] = Len(t) THEN prev[Len(t) + 1]
    ELSE LcsFrom(s, t, i + 1, LcsRow(prev, s[i], t, <<0>>))

\* the length of the common prefix of s and t
CommonPrefixLen(s, t) ==
    CHOOSE k \in 0..Min2(Len(s), Len(t)) :
        /\ \A i \in 1..k : s[i] = t[i]
        /\ k < Min2(Len(s), Len(t)) => s[k + 1] # t[k + 1]

\* the length of the common suffix of s and t once a prefix of p characters
\* is taken off both
CommonSuffixLenAfter(s, t, p) ==
    CHOOSE k \in 0..(Min2(Len(s), Len(t)) - p) :
        /\ \A i \in 0..(k - 1) : s[Len(s) - i] = t[Len(t) - i]
        /\ k < Min2(Len(s), Len(t)) - p => s[Len(s) - k] # t[Len(t) - k]

\* the common prefix (p) and suffix (q) belong to a longest common
\* subsequence; the table is filled for what lies between
LcsTrimmed(s, t, p, q) ==
    p + q + LcsFrom(SubSeq(s, p + 1, Len(s) - q), SubSeq(t, p + 1, Len(t) - q), 1,
                    [ j \in 1..(Len(t) - p - q + 1) |-> 0 ])

LcsAfterPrefix(s, t, p) == LcsTrimmed(s, t, p, CommonSuffixLenAfter(s, t, p))

\* The length of the longest common subsequence.  As the library does, the
\* common prefix and the common suffix are taken off first.
LcsLen(s, t) == LcsAfterPrefix(s, t, CommonPrefixLen(s, t))

\* A score is the exact value n/d of the float the library returns, kept as
\* a fraction in lowest terms (so equal scores are equal records).
Frac(n, d) == LET g == Gcd(n, d) IN [ n |-> n \div g, d |-> d \div g ]

ScoreZeroAsFull == Frac(100, 1)

ScoreZero == Frac(0, 1)
ScoreGT(a, b) == a.n * b.d > b.n * a.d
\* score > k for an integer k
ScoreGTInt(a, k) == a.n > k * a.d

\* fuzz.ratio(s, t) = 100 * (1 - indel_distance / (len(s) + len(t))), with
\* indel_distance = len(s) + len(t) - 2 * lcs; 100 for two empty strings
FuzzRatio(s, t) ==
    IF Len(s) + Len(t) = 0 THEN Frac(100, 1)
    ELSE Frac(200 * LcsLen(s, t), Len(s) + Len(t))

\* sorted(tokens): ascending in string order
RECURSIVE InsertSorted(_, _)
InsertSorted(sorted, x) ==
    IF sorted = <<>> THEN <<x>>
    ELSE IF StrLess(x, sorted[1]) THEN <<x>> \o sorted
    ELSE <<sorted[1]>> \o InsertSorted(Tail(sorted), x)

\* the tokens left in their order
SortTokensKeepOrder(toks) == toks

RECURSIVE SortTokens(_)
SortTokens(toks) ==
    IF toks = <<>> THEN <<>>
    ELSE InsertSorted(SortTokens(SubSeq(toks, 1, Len(toks) - 1)), toks[Len(toks)])

\* fuzz.token_sort_ratio(s, t): the ratio of the two strings with their
\* whitespace-separated tokens sorted and rejoined by single spaces
token_sort_ratio(s, t) ==
    FuzzRatio(Join(SP, SortTokens(Split(s))), Join(SP, SortTokens(Split(t))))

(***************************************************************************)
(* alias_cleaning.py: typo collapse.                                       *)
(***************************************************************************)

\* the last component of the key compared the other way round
RepKeyGreaterLexAscending(counts, x, y) ==
    \/ counts[x] > counts[y]
    \/ counts[x] = counts[y] /\ Len(x) > Len(y)
    \/ counts[x] = counts[y] /\ Len(x) = Len(y) /\ StrLess(x, y)

\* the key (counts[x], len(x), x) of x is greater than that of y
RepKeyGreater(counts, x, y) ==
    \/ counts[x] > counts[y]
    \/ counts[x] = counts[y] /\ Len(x) > Len(y)
    \/ counts[x] = counts[y] /\ Len(x) = Len(y) /\ StrLess(y, x)

\* sorted(vocab, key=lambda x: (counts[x], len(x), x), reverse=True)
\* sorted without reverse=True: the least key first
RECURSIVE RepsSortedAscending(_, _)
RepsSortedAscending(vocab, counts) ==
    IF vocab = {} THEN <<>>
    ELSE LET low == CHOOSE x \in vocab :
                        \A y \in vocab \ {x} : RepKeyGreater(counts, y, x)
         IN  <<low>> \o RepsSortedAscending(vocab \ {low}, counts)

RECURSIVE RepsSorted(_, _)
RepsSorted(vocab, counts) ==
    IF vocab = {} THEN <<>>
    ELSE LET top == CHOOSE x \in vocab :
                        \A y \in vocab \ {x} : RepKeyGreater(counts, x, y)
         IN  <<top>> \o RepsSorted(vocab \ {top}, counts)

\* the inner loop: the first r of reps_sorted, from position i on, that is t
\* itself or is long enough and within the edit distance; t when there is none
\* the loop without the test of the length of r
RECURSIVE BestRepAnyLength(_, _, _, _, _)
BestRepAnyLength(t, reps, i, max_edit_distance, min_rep_len) ==
    IF i > Len(reps) THEN t
    ELSE IF reps[i] = t \/ Levenshtein(t, reps[i]) <= max_edit_distance THEN reps[i]
    ELSE BestRepAnyLength(t, reps, i + 1, max_edit_distance, min_rep_len)

RECURSIVE BestRep(_, _, _, _, _)
BestRep(t, reps, i, max_edit_distance, min_rep_len) ==
    IF i > Len(reps) THEN t
    ELSE LET r == reps[i]
         IN  IF r = t THEN r
             ELSE IF Len(r) < min_rep_len
                  THEN BestRep(t, reps, i + 1, max_edit_distance, min_rep_len)
             ELSE IF Levenshtein(t, r) <= max_edit_distance THEN r
             ELSE BestRep(t, reps, i + 1, max_edit_distance, min_rep_len)

\* build_rep_map_typo_collapse: a function from the vocabulary to tokens
\* (the empty function for an empty vocabulary)
build_rep_map_typo_collapse(token_lists, max_edit_distance, min_rep_len) ==
    LET all    == Flatten(token_lists)
        vocab  == Range(all)
        counts == [ t \in vocab |-> Count(all, t) ]
        reps_sorted == RepsSorted(vocab, counts)
    IN  [ t \in vocab |-> BestRep(t, reps_sorted, 1, max_edit_distance, min_rep_len) ]

\* rep_map.get(t, t)
RepGet(rep_map, t) == IF t \in DOMAIN rep_map THEN rep_map[t] ELSE t

MapTokens(lst, rep_map) == [ i \in 1..Len(lst) |-> RepGet(rep_map, lst[i]) ]

_apply_rep_map(token_lists, rep_map) ==
    [ i \in 1..Len(token_lists) |-> MapTokens(token_lists[i], rep_map) ]

(***************************************************************************)
(* alias_cleaning.py: canonical tokens and ranking.                        *)
(***************************************************************************)

\* every repeat counted
PresenceCountRepeats(lists, t) == Count(Flatten(lists), t)

\* Counter(t for lst in lists for t in set(lst))[t]
PresenceCount(lists, t) == Cardinality({ i \in 1..Len(lists) : t \in Range(lists[i]) })

\* the key (-count, -len(t), t) of x is smaller than that of y
CanonKeyLess(counter, x, y) ==
    \/ counter[x] > counter[y]
    \/ counter[x] = counter[y] /\ Len(x) > Len(y)
    \/ counter[x] = counter[y] /\ Len(x) = Len(y) /\ StrLess(x, y)

\* sorted(counter.items(), key=lambda kv: (-kv[1], -len(kv[0]), kv[0]))
RECURSIVE CanonSorted(_, _)
CanonSorted(toks, counter) ==
    IF toks = {} THEN <<>>
    ELSE LET top == CHOOSE x \in toks :
                        \A y \in toks \ {x} : CanonKeyLess(counter, x, y)
         IN  <<top>> \o CanonSorted(toks \ {top}, counter)

\* the slice ignored
TakeAll(s, k) == s

\* s[:k]: the first k elements, and for a negative k all but the last -k
Take(s, k) == IF k >= 0 THEN SubSeq(s, 1, Min2(k, Len(s))) ELSE SubSeq(s, 1, Len(s) + k)

most_frequent_canonical_tokens(transformed_token_lists, top_m, use_presence) ==
    LET all     == Flatten(transformed_token_lists)
        toks    == Range(all)
        counter == [ t \in toks |->
                       IF use_presence
                       THEN PresenceCount(transformed_token_lists, t)
                       ELSE Count(all, t) ]
    IN  Take(CanonSorted(toks, counter), top_m)

_alias_to_transformed_string(alias, rep_map) ==
    Join(SP, MapTokens(_norm_tokens(alias), rep_map))

\* the frequency left out of the key
RankKeyGreaterScoreOnly(x, y) == ScoreGT(x.score, y.score)

\* the key (score, freq) of x is greater than that of y
RankKeyGreater(x, y) ==
    \/ ScoreGT(x.score, y.score)
    \/ x.score = y.score /\ x.freq > y.freq

\* list.sort(key=..., reverse=True) is stable: x goes after every element whose
\* key is greater than or equal to its own
RECURSIVE RankInsert(_, _)
RankInsert(sorted, x) ==
    IF sorted = <<>> THEN <<x>>
    ELSE IF RankKeyGreater(x, sorted[1]) THEN <<x>> \o sorted
    ELSE <<sorted[1]>> \o RankInsert(Tail(sorted), x)

\* the tuples of scored whose alias has not occurred before
RECURSIVE DropRepeatedAliases(_)
DropRepeatedAliases(scored) ==
    IF scored = <<>> THEN <<>>
    ELSE LET front == SubSeq(scored, 1, Len(scored) - 1)
             x == scored[Len(scored)]
         IN  IF \E i \in 1..Len(front) : front[i].alias = x.alias
             THEN DropRepeatedAliases(front)
             ELSE Append(DropRepeatedAliases(front), x)

RECURSIVE RankInsertAll(_, _)
RankInsertAll(sorted, rest) ==
    IF rest = <<>> THEN sorted
    ELSE RankInsertAll(RankInsert(sorted, rest[1]), Tail(rest))

\* each alias scored once
RankSortDistinct(scored) == RankInsertAll(<<>>, DropRepeatedAliases(scored))

RECURSIVE RankSort(_)
RankSort(scored) ==
    IF scored = <<>> THEN <<>>
    ELSE RankInsert(RankSort(SubSeq(scored, 1, Len(scored) - 1)), scored[Len(scored)])

\* only the empty string taken for blank
NotEmpty(a) == a # <<>>

\* a and a.strip()
NotBlank(a) == a # <<>> /\ ~IsBlank(a)

rank_by_tokens(aliases, target_tokens, k) ==
    IF target_tokens = <<>> THEN <<>>
    ELSE LET target_norm == _normalize(Join(SP, target_tokens))
             kept   == SelectSeq(aliases, NotBlank)
             scored == [ i \in 1..Len(kept) |->
                           [ alias |-> kept[i],
                             score |-> token_sort_ratio(_normalize(kept[i]), target_norm),
                             freq  |-> Count(aliases, kept[i]) ] ]
         IN  Take(RankSort(scored), k)

(***************************************************************************)
(* alias_cleaning.py: the end-to-end pipeline.                             *)
(***************************************************************************)

transform_aliases_with_canonical_tokens(aliases, max_edit_distance, min_rep_len, top_m_canonical_tokens, top_k_original) ==
    LET al == SelectSeq(aliases, NotBlank)
    IN  IF al = <<>>
        THEN [ rep_map |-> <<>>, transformed_aliases |-> <<>>,
               canonical_tokens |-> <<>>, top_k_original |-> <<>>,
               top_k_canonicalized |-> <<>> ]
        ELSE
        LET token_lists == [ i \in 1..Len(al) |-> _norm_tokens(al[i]) ]
            rep_map == build_rep_map_typo_collapse(token_lists, max_edit_distance,
                                                   min_rep_len)
            transformed_lists == _apply_rep_map(token_lists, rep_map)
            canonical_tokens ==
                most_frequent_canonical_tokens(transformed_lists,
                                               top_m_canonical_tokens, TRUE)
            top_original == rank_by_tokens(al, canonical_tokens, top_k_original)
        IN  [ rep_map |-> rep_map,
              transformed_aliases |->
                  [ i \in 1..Len(al) |-> Join(SP, transformed_lists[i]) ],
              canonical_tokens |-> canonical_tokens,
              top_k_original |-> top_original,
              top_k_canonicalized |->
                  [ i \in 1..Len(top_original) |->
                      [ alias |-> top_original[i].alias,
                        alias_canonicalized |->
                            _alias_to_transformed_string(top_original[i].alias, rep_map),
                        score |-> top_original[i].score,
                        freq  |-> top_original[i].freq ] ] ]

(***************************************************************************)
(* sku_curation_cli.py: the decision per SKU group.                        *)
(***************************************************************************)

\* the decision values, as text
AUTO == <<"A","U","T","O">>
NEED == <<"N","E","E","D","_","A","P","P","R","O","V","A","L">>
APPROVED == <<"A","P","P","R","O","V","E","D">>

\* the parameters process_sku_group passes to the pipeline
CliMaxEditDistance == 2
CliMinRepLen == 4
CliTopM == 2
CliTopK == 3
\* the absolute threshold of the decision rule
AutoThreshold == 80

\* while len(alt_names) < 3: alt_names.append('')
PadTo3(names) == names \o [ i \in 1..(3 - Len(names)) |-> <<>> ]

ScoreGE(a, b) == a.n * b.d >= b.n * a.d

AutoRuleNonStrict(top_candidate_score, runner_up_score) ==
    ScoreGE(top_candidate_score, runner_up_score)
        /\ ScoreGTInt(top_candidate_score, AutoThreshold)

\* top_candidate_score > runner_up_score and top_candidate_score > 80
AutoRule(top_candidate_score, runner_up_score) ==
    ScoreGT(top_candidate_score, runner_up_score)
        /\ ScoreGTInt(top_candidate_score, AutoThreshold)

MatchNameOriginal(top_aliases, alt_names) ==
    IF top_aliases # <<>> THEN top_aliases[1].alias ELSE <<>>

\* 'match_name': alt_names[0]
MatchName(top_aliases, alt_names) == alt_names[1]

FinalSkuNameKept(alt_names, top_candidate_score, runner_up_score) == alt_names[1]

\* 'final_sku_name': alt_names[0] if the rule holds, else ''
FinalSkuName(alt_names, top_candidate_score, runner_up_score) ==
    IF AutoRule(top_candidate_score, runner_up_score) THEN alt_names[1] ELSE <<>>

\* 'decision': 'AUTO' if the rule holds, else 'NEED_APPROVAL'
Decision(top_candidate_score, runner_up_score) ==
    IF AutoRule(top_candidate_score, runner_up_score) THEN AUTO ELSE NEED

process_sku_group(sku_id, descriptions) ==
    LET result == transform_aliases_with_canonical_tokens(
                      descriptions, CliMaxEditDistance, CliMinRepLen, CliTopM, CliTopK)
        top_aliases == result.top_k_canonicalized
        top_candidate_score ==
            IF top_aliases # <<>> THEN top_aliases[1].score ELSE ScoreZero
        runner_up_score ==
            IF Len(top_aliases) > 1 THEN top_aliases[2].score ELSE ScoreZero
        alt_names == PadTo3([ i \in 1..Len(top_aliases) |->
                                top_aliases[i].alias_canonicalized ])
    IN  [ sku_id |-> sku_id,
          raw_names |-> Join(<<",">>, descriptions),
          match_name |-> MatchName(top_aliases, alt_names),
          match_score |-> top_candidate_score,
          final_sku_name |->
              FinalSkuName(alt_names, top_candidate_score, runner_up_score),
          decision |-> Decision(top_candidate_score, runner_up_score) ]

(***************************************************************************)
(* generate_sku_seed.py: the seed merger.                                  *)
(*                                                                         *)
(* A seed row is a record sku_id, canonical_name, source, effective_from,  *)
(* version.  sku_id, canonical_name and version are text (they are sorted, *)
(* stripped and parsed); source and effective_from are only compared and   *)
(* copied, and are plain strings.  An argument that is not given (None) is *)
(* the empty text: the code tests both with "or".  The seed file holds the *)
(* cells as written; reading it turns pandas' missing-value markers into   *)
(* empty cells.                                                            *)
(***************************************************************************)

SRC_APPROVED == "approved_seed"
SRC_AUTO == "auto_ref"

SEED_COLS == << "sku_id", "canonical_name", "source", "effective_from", "version" >>

\* str.upper() on one character
UpperChar(c) == IF IsLower(c) THEN Ascii[Code[c] - Code["a"] + Code["A"]] ELSE c

\* s.upper()
Upper(s) == [ i \in 1..Len(s) |-> UpperChar(s[i]) ]

\* re.sub(r"\s+", "_", c.strip().lower()) for every column
RECURSIVE WsToUnderscoreFrom(_, _, _)
WsToUnderscoreFrom(s, i, inRun) ==
    IF i > Len(s) THEN <<>>
    ELSE IF IsSpace(s[i])
         THEN (IF inRun THEN <<>> ELSE <<"_">>) \o WsToUnderscoreFrom(s, i + 1, TRUE)
         ELSE <<s[i]>> \o WsToUnderscoreFrom(s, i + 1, FALSE)

normalize_cols(columns) ==
    [ i \in 1..Len(columns) |-> WsToUnderscoreFrom(Lower(Strip(columns[i])), 1, FALSE) ]

\* The cell texts that pd.read_csv takes for a missing value (its default
\* na_values, which dtype=str does not switch off), as far as the model's
\* cells can hold them: the empty cell and NA.
NA_VALUES == { <<>>, <<"N","A">> }
NA_WORDS == { "", "NA" }

\* pd.read_csv(path, dtype=str).fillna(""), for one cell: the text of the
\* cell, and the empty string for a missing value
ReadCell(text) == IF text \in NA_VALUES THEN <<>> ELSE text
ReadWord(word) == IF word \in NA_WORDS THEN "" ELSE word

\* the seed rows as pd.read_csv(seed_path, dtype=str).fillna("") gives them
ReadSeedRows(rows) ==
    [ i \in 1..Len(rows) |->
        [ sku_id |-> ReadCell(rows[i].sku_id),
          canonical_name |-> ReadCell(rows[i].canonical_name),
          source |-> ReadWord(rows[i].source),
          effective_from |-> ReadWord(rows[i].effective_from),
          version |-> ReadCell(rows[i].version) ] ]

\* the approved rows as pd.read_csv(approved_csv, dtype=str).fillna("") gives them
ReadApprovedRows(rows) ==
    [ i \in 1..Len(rows) |->
        [ sku_id |-> ReadCell(rows[i].sku_id),
          final_sku_name |-> ReadCell(rows[i].final_sku_name),
          decision |-> ReadCell(rows[i].decision) ] ]

\* read_existing_seed: the rows of the file, no rows when there is no file,
\* and an exit when the file lacks one of SEED_COLS
read_existing_seed(file) ==
    IF file.exists
    THEN IF \E i \in 1..Len(SEED_COLS) : SEED_COLS[i] \notin file.columns
         THEN [ ok |-> FALSE, error |-> "Existing seed missing columns", rows |-> <<>> ]
         ELSE [ ok |-> TRUE, error |-> "", rows |-> ReadSeedRows(file.rows) ]
    ELSE [ ok |-> TRUE, error |-> "", rows |-> <<>> ]

\* int(digits)
RECURSIVE StrToInt(_)
StrToInt(ds) ==
    IF ds = <<>> THEN 0
    ELSE 10 * StrToInt(SubSeq(ds, 1, Len(ds) - 1)) + (Code[ds[Len(ds)]] - Code["0"])

\* str(n) for n >= 0
RECURSIVE IntToStr(_)
IntToStr(n) ==
    IF n < 10 THEN << Ascii[Code["0"] + n] >>
    ELSE IntToStr(n \div 10) \o << Ascii[Code["0"] + (n % 10)] >>

AllDigits(ds) == ds # <<>> /\ \A i \in 1..Len(ds) : IsDigit(ds[i])

\* the position of the first "." of s, 0 when there is none
DotPos(s) ==
    IF \E i \in 1..Len(s) : s[i] = "."
    THEN CHOOSE i \in 1..Len(s) : s[i] = "." /\ \A j \in 1..(i - 1) : s[j] # "."
    ELSE 0

\* semver_tuple: 'vX' or 'vX.Y' (after strip) gives (X, Y), Y = 0 when it is
\* missing; anything else gives (0, 0)
semver_tuple(v) ==
    LET s == Strip(v)
        body == Tail(s)
        dot == DotPos(body)
    IN  IF v = <<>> THEN << 0, 0 >>
        ELSE IF s = <<>> \/ s[1] # "v" THEN << 0, 0 >>
        ELSE IF dot = 0
             THEN (IF AllDigits(body) THEN << StrToInt(body), 0 >> ELSE << 0, 0 >>)
        ELSE LET major == SubSeq(body, 1, dot - 1)
                 minor == SubSeq(body, dot + 1, Len(body))
             IN  IF AllDigits(major) /\ AllDigits(minor)
                 THEN << StrToInt(major), StrToInt(minor) >>
                 ELSE << 0, 0 >>

\* the minor number compared first
TupleGreaterMinorFirst(x, y) == x[2] > y[2] \/ (x[2] = y[2] /\ x[1] > y[1])

\* tuple comparison (a, b) > (c, d)
TupleGreater(x, y) == x[1] > y[1] \/ (x[1] = y[1] /\ x[2] > y[2])

\* sorted({...}, reverse=True)[0]
MaxTuple(S) == CHOOSE x \in S : \A y \in S \ {x} : TupleGreater(x, y)

\* the greatest version of the seed as it stands
bump_version_autoNoBump(existing_rows) ==
    IF existing_rows = <<>> THEN <<"v","0",".","1">>
    ELSE LET top == MaxTuple({ semver_tuple(existing_rows[i].version) :
                                   i \in 1..Len(existing_rows) })
         IN  <<"v">> \o IntToStr(top[1]) \o <<".">> \o IntToStr(top[2])

\* bump_version_auto: v0.1 for an empty seed, else the greatest version of
\* the seed with its minor raised by one
bump_version_auto(existing_rows) ==
    IF existing_rows = <<>> THEN <<"v","0",".","1">>
    ELSE LET top == MaxTuple({ semver_tuple(existing_rows[i].version) :
                                   i \in 1..Len(existing_rows) })
         IN  <<"v">> \o IntToStr(top[1]) \o <<".">> \o IntToStr(top[2] + 1)

H_sku_id == <<"s","k","u","_","i","d">>
H_final_sku_name == <<"f","i","n","a","l","_","s","k","u","_","n","a","m","e">>
H_decision == <<"d","e","c","i","s","i","o","n">>

\* df["decision"].astype(str).str.strip().str.upper()
NormalizeDecision(d) == Upper(Strip(d))

\* df[df["decision"].isin([APPROVED, AUTO])]
KeepsDecision(d) == NormalizeDecision(d) \in { APPROVED, AUTO }

\* df["decision"].map({APPROVED: SRC_APPROVED, AUTO: SRC_AUTO})
SourceOf(decision) == IF decision = APPROVED THEN SRC_APPROVED ELSE SRC_AUTO

\* build_new_rows: the APPROVED and AUTO rows of the approved CSV as seed
\* rows stamped with the run's effective_from and version; an exit when a
\* required column is missing or a kept row has a blank sku_id or an empty
\* canonical_name
build_new_rows(approved, eff_from, version) ==
    LET cols == Range(normalize_cols(approved.columns))
        kept == SelectSeq(approved.rows, LAMBDA r : KeepsDecision(r.decision))
        df   == [ i \in 1..Len(kept) |->
                    [ sku_id |-> kept[i].sku_id,
                      canonical_name |-> Strip(kept[i].final_sku_name),
                      source |-> SourceOf(NormalizeDecision(kept[i].decision)),
                      effective_from |-> eff_from,
                      version |-> version ] ]
    IN  IF ~({ H_sku_id, H_final_sku_name, H_decision } \subseteq cols)
        THEN [ ok |-> FALSE, error |-> "Approved CSV missing columns", rows |-> <<>> ]
        ELSE IF \E i \in 1..Len(df) : Strip(df[i].sku_id) = <<>>
        THEN [ ok |-> FALSE, error |-> "Found null/empty sku_id in approved CSV", rows |-> <<>> ]
        ELSE IF \E i \in 1..Len(df) : df[i].canonical_name = <<>>
        THEN [ ok |-> FALSE, error |-> "Empty canonical_name", rows |-> <<>> ]
        ELSE [ ok |-> TRUE, error |-> "", rows |-> df ]

\* s.map({SRC_APPROVED: 2, SRC_AUTO: 1}).fillna(0)
src_priority(source) ==
    IF source = SRC_APPROVED THEN 2 ELSE IF source = SRC_AUTO THEN 1 ELSE 0

\* sort_values("sku_id"): ascending in string order
RECURSIVE InsertBySku(_, _)
InsertBySku(sorted, r) ==
    IF sorted = <<>> THEN <<r>>
    ELSE IF StrLess(r.sku_id, sorted[1].sku_id) THEN <<r>> \o sorted
    ELSE <<sorted[1]>> \o InsertBySku(Tail(sorted), r)

\* the rows left in the order of the frame
SortBySkuKeepOrder(rows) == rows

RECURSIVE SortBySku(_)
SortBySku(rows) ==
    IF rows = <<>> THEN <<>>
    ELSE InsertBySku(SortBySku(SubSeq(rows, 1, Len(rows) - 1)), rows[Len(rows)])

\* the positions of ex_by_sku whose index is sku
Positions(rows, sku) == { i \in 1..Len(rows) : rows[i].sku_id = sku }

\* the incoming row wins only with a higher priority
ReplaceWinsStrict(r, r_old) == src_priority(r.source) > src_priority(r_old.source)

\* int(r["_prio"]) >= int(r_old["_prio"])
ReplaceWins(r, r_old) == src_priority(r.source) >= src_priority(r_old.source)

\* The loop of merge_seed from new row i on, over ex_by_sku.  A sku_id that
\* labels two rows of ex_by_sku makes ex_by_sku.loc[sku] a frame, and int()
\* of its _prio column raises: the run dies with the exception.
RECURSIVE MergeLoop(_, _, _)
MergeLoop(ex_by_sku, new_rows, i) ==
    IF i > Len(new_rows) THEN [ ok |-> TRUE, error |-> "", rows |-> ex_by_sku ]
    ELSE LET r   == new_rows[i]
             pos == Positions(ex_by_sku, r.sku_id)
         IN  IF pos = {}
             THEN MergeLoop(Append(ex_by_sku, r), new_rows, i + 1)
             ELSE IF Cardinality(pos) > 1
             THEN [ ok |-> FALSE, error |-> "TypeError", rows |-> <<>> ]
             ELSE LET k == CHOOSE k \in pos : TRUE
                  IN  IF ReplaceWins(r, ex_by_sku[k])
                      THEN MergeLoop([ ex_by_sku EXCEPT ![k] = r ], new_rows, i + 1)
                      ELSE MergeLoop(ex_by_sku, new_rows, i + 1)

\* the existing rows dropped
merge_seedNewRowsOnly(existing, new_rows) ==
    [ ok |-> TRUE, error |-> "", rows |-> SortBySku(new_rows) ]

\* merge_seed
merge_seed(existing, new_rows) ==
    IF existing = <<>>
    THEN [ ok |-> TRUE, error |-> "", rows |-> SortBySku(new_rows) ]
    ELSE LET merged == MergeLoop(existing, new_rows, 1)
         IN  IF merged.ok
             THEN [ ok |-> TRUE, error |-> "", rows |-> SortBySku(merged.rows) ]
             ELSE merged

\* no uniqueness check
HasDuplicateSkuUnchecked(rows) == FALSE

\* final_seed["sku_id"].duplicated().any()
HasDuplicateSku(rows) ==
    \E i \in 1..Len(rows), j \in 1..Len(rows) : i # j /\ rows[i].sku_id = rows[j].sku_id

\* (final_seed["canonical_name"].astype(str).str.strip() == "").any()
HasEmptyName(rows) == \E i \in 1..Len(rows) : Strip(rows[i].canonical_name) = <<>>

\* an exit that leaves an emptied seed file behind
AbortedTruncating(error, file, version, eff_from) ==
    [ written |-> FALSE, error |-> error,
      file |-> [ exists |-> TRUE, columns |-> {}, rows |-> <<>> ],
      version |-> version, eff_from |-> eff_from ]

\* sys.exit(...), or an exception: nothing is written
Aborted(error, file, version, eff_from) ==
    [ written |-> FALSE, error |-> error, file |-> file,
      version |-> version, eff_from |-> eff_from ]

\* the date argument ignored
EffectiveFromToday(eff_arg, today) == today

\* args.effective_from or date.today().isoformat()
EffectiveFrom(eff_arg, today) == IF eff_arg # "" THEN eff_arg ELSE today

\* the version argument ignored
DecideVersionAlwaysAuto(version_arg, existing_rows) == bump_version_auto(existing_rows)

\* args.version or bump_version_auto(existing_seed)
DecideVersion(version_arg, existing_rows) ==
    IF version_arg # <<>> THEN version_arg ELSE bump_version_auto(existing_rows)

\* main: what one run does to the seed file.  An exit or an exception leaves
\* the file as it was; otherwise the merged seed is written with SEED_COLS.
main(file, approved, version_arg, eff_arg, today) ==
    LET eff_from == EffectiveFrom(eff_arg, today)
        existing_seed == read_existing_seed(file)
        version == DecideVersion(version_arg, existing_seed.rows)
        approved_df == [ columns |-> approved.columns,
                         rows |-> ReadApprovedRows(approved.rows) ]
        new_rows == build_new_rows(approved_df, eff_from, version)
        final_seed == merge_seed(existing_seed.rows, new_rows.rows)
    IN  IF ~existing_seed.ok THEN Aborted(existing_seed.error, file, <<>>, eff_from)
        ELSE IF ~new_rows.ok THEN Aborted(new_rows.error, file, version, eff_from)
        ELSE IF ~final_seed.ok THEN Aborted(final_seed.error, file, version, eff_from)
        ELSE IF HasDuplicateSku(final_seed.rows)
        THEN Aborted("Duplicate sku_id in final seed", file, version, eff_from)
        ELSE IF HasEmptyName(final_seed.rows)
        THEN Aborted("Empty canonical_name in final seed after merge", file, version, eff_from)
        ELSE [ written |-> TRUE, error |-> "",
               file |-> [ exists |-> TRUE,
                          columns |-> Range(SEED_COLS),
                          rows |-> final_seed.rows ],
               version |-> version, eff_from |-> eff_from ]

(***************************************************************************)
(* The inputs of the curation export.                                      *)
(***************************************************************************)

W_abcd == <<"a","b","c","d">>
W_abce == <<"a","b","c","e">>
W_efgh == <<"e","f","g","h">>

\* The item descriptions a candidate row can hold: clean text, a one-letter
\* typo, text with upper case, a stop word and punctuation, text whose only
\* token holds a digit, text with a number beside a word, and blank text.
AliasPool ==
    { W_abcd \o SP \o W_efgh,
      W_abce \o SP \o W_efgh,
      <<"T","h","e"," ","A","b","c","d","-","E","f","g","h","!">>,
      W_abcd \o <<"1">>,
      W_abcd \o <<" ","9">>,
      <<" ">> }

SKU1 == <<"S","1">>
SKU2 == <<"S","2">>
SkuPool == { SKU1, SKU2 }

\* the most candidate rows the table holds
MaxRows == 3

(***************************************************************************)
(* The inputs of generate-seed runs.                                       *)
(***************************************************************************)

N_kb == <<"k","b">>
N_ms == <<"m","s">>
N_zz == <<"z","z">>

\* decision cells as a reviewer may leave them
D_auto_padded == <<" ","A","u","t","o"," ">>
D_approved_lower == <<"a","p","p","r","o","v","e","d">>
D_rejected == <<"R","E","J","E","C","T","E","D">>

ApprovedRow(sku_id, final_sku_name, decision) ==
    [ sku_id |-> sku_id, final_sku_name |-> final_sku_name, decision |-> decision ]

\* The rows an approved CSV can hold: an approved and a machine-approved name
\* for SKU1 (the latter with padded cells), a machine-approved name for SKU2,
\* a NEED_APPROVAL row as the export writes it (no final name), an approved
\* row without a name, a row without a sku_id, a row with another decision,
\* and a machine-approved row whose name is the text NA.
R_s1_approved == ApprovedRow(SKU1, N_kb, APPROVED)
R_s1_auto == ApprovedRow(SKU1, SP \o N_ms \o SP, D_auto_padded)
R_s2_auto == ApprovedRow(SKU2, N_kb, AUTO)
R_s2_need == ApprovedRow(SKU2, <<>>, NEED)
R_s1_noname == ApprovedRow(SKU1, SP, D_approved_lower)
R_nosku == ApprovedRow(SP, N_kb, AUTO)
R_s1_rejected == ApprovedRow(SKU1, N_zz, D_rejected)
R_s2_na == ApprovedRow(SKU2, <<"N","A">>, AUTO)

RowPool ==
    { R_s1_approved, R_s1_auto, R_s2_auto, R_s2_need, R_s1_noname, R_nosku,
      R_s1_rejected, R_s2_na }

\* the rows that also come two to a file, in either order and twice over
PairPool == { R_s1_approved, R_s1_auto, R_s2_auto }

\* the row lists of an approved CSV: no row, one row, two rows that take part
\* in the merge, or two rows that do not
BatchPool ==
    { <<>> } \cup { <<r>> : r \in RowPool }
    \cup { <<r, q>> : r \in PairPool, q \in PairPool }
    \cup { << R_s2_need, R_s1_rejected >> }

CleanCols == << H_sku_id, H_final_sku_name, H_decision >>
\* headers that differ from the required names in case and spacing
PaddedCols ==
    << <<"S","K","U"," ","I","D">>,
       <<" ","F","i","n","a","l","_","s","k","u","\t","N","a","m","e">>,
       <<"D","e","c","i","s","i","o","n"," ">> >>
\* no decision column
MissingCols == << H_sku_id, H_final_sku_name >>

ApprovedPool ==
    { [ columns |-> CleanCols, rows |-> b ] : b \in BatchPool }
    \cup { [ columns |-> c, rows |-> << R_s1_approved, R_s2_auto >> ] :
             c \in { PaddedCols, MissingCols } }

\* --version: not given, or a version whose minor has two digits
VersionArgs == { <<>>, <<"v","1",".","1","0">> }
\* --effective-from: not given, or a date
EffArgs == { "", "2025-08-09" }
\* date.today().isoformat()
Today == "2025-08-10"

SeedRow(sku_id, canonical_name, source, effective_from, version) ==
    [ sku_id |-> sku_id, canonical_name |-> canonical_name, source |-> source,
      effective_from |-> effective_from, version |-> version ]

SeedFile(columns, rows) == [ exists |-> TRUE, columns |-> columns, rows |-> rows ]

NoSeedFile == [ exists |-> FALSE, columns |-> {}, rows |-> <<>> ]

\* The seed files a first run can find: none; a seed with versions v2.3 and
\* v1.9; an unsorted hand-written seed with a source of its own, a version
\* without minor and a version that does not parse; a seed whose row has no
\* name and no version; a seed without the version column; a seed that holds
\* a sku_id twice; a seed whose approved row has the version tag NA.
InitialSeedFiles ==
    { NoSeedFile,
      SeedFile(Range(SEED_COLS),
               << SeedRow(SKU1, N_kb, SRC_APPROVED, "2025-01-01", <<"v","2",".","3">>),
                  SeedRow(SKU2, N_ms, SRC_AUTO, "2025-01-01", <<"v","1",".","9">>) >>),
      SeedFile(Range(SEED_COLS),
               << SeedRow(SKU2, N_ms, "manual", "2025-01-01", <<"v","2">>),
                  SeedRow(SKU1, N_kb, SRC_AUTO, "2025-01-01", <<"f","o","o">>) >>),
      SeedFile(Range(SEED_COLS),
               << SeedRow(SKU1, <<>>, SRC_APPROVED, "2025-01-01", <<>>) >>),
      SeedFile(Range(SEED_COLS) \ { "version" },
               << SeedRow(SKU1, N_kb, SRC_AUTO, "2025-01-01", <<>>) >>),
      SeedFile(Range(SEED_COLS),
               << SeedRow(SKU1, N_kb, SRC_AUTO, "2025-01-01", <<"v","0",".","1">>),
                  SeedRow(SKU1, N_ms, SRC_AUTO, "2025-01-01", <<"v","0",".","1">>) >>),
      SeedFile(Range(SEED_COLS),
               << SeedRow(SKU1, N_kb, SRC_APPROVED, "2025-01-01", <<"N","A">>) >>) }

\* the most generate-seed runs in a behaviour
MaxRuns == 2

NoRun ==
    [ before |-> NoSeedFile, approved |-> [ columns |-> <<>>, rows |-> <<>> ],
      version_arg |-> <<>>, eff_arg |-> "", written |-> FALSE, error |-> "no run",
      version |-> <<>>, eff_from |-> "", log |-> <<>> ]

(***************************************************************************)
(* The inputs of the functions of alias_cleaning.py called one at a time.  *)
(***************************************************************************)

\* The characters of the texts given to _normalize and _norm_tokens: an
\* upper-case letter whose lower case is a stop word, letters, a digit, the
\* underscore, a punctuation character and the space.
TextAlphabet == { "A", "n", "b", "1", "_", "-", " " }

\* the longest text
MaxTextLen == 4

RECURSIVE TextsUpTo(_)
TextsUpTo(n) ==
    IF n = 0 THEN { <<>> }
    ELSE LET S == TextsUpTo(n - 1)
         IN  S \cup { Append(s, c) : s \in S, c \in TextAlphabet }

TextPool == TextsUpTo(MaxTextLen)

W_abc == <<"a","b","c">>
W_abcde == <<"a","b","c","d","e">>

\* The token lists of an alias: none, tokens one edit apart with the same
\* length, a token repeated inside one alias, a token together with another
\* word, a token shorter than the default min_rep_len, a longer token one
\* edit away, and an alias that repeats the short token three times and
\* another token twice.
TokenListPool ==
    { <<>>, <<W_abcd>>, <<W_abce>>, <<W_abcd, W_abcd>>, <<W_efgh, W_abce>>,
      <<W_abc>>, <<W_abcde>>, <<W_abc, W_abc, W_abc, W_abcd, W_abcd>> }

\* the most aliases (or token lists) of a group
MaxGroup == 3

\* the sequences over S of length at most n
RECURSIVE SeqsUpTo(_, _)
SeqsUpTo(S, n) ==
    IF n = 0 THEN { <<>> }
    ELSE LET T == SeqsUpTo(S, n - 1)
         IN  T \cup { Append(t, x) : t \in T, x \in S }

\* the aliases given to rank_by_tokens: two orders of the same words, one
\* word, a word with a digit, and blank and empty text
RankAliasPool ==
    { W_abcd \o SP \o W_efgh, W_efgh \o SP \o W_abcd, W_abcd,
      W_abcd \o <<"1">>, <<" ">>, <<>> }

RankTargetPool == { <<>>, <<W_efgh>>, <<W_abcd, W_efgh>> }

A_keybord_black ==
    <<"w","i","r","e","l","e","s","s"," ","k","e","y","b","o","r","d"," ",
      "b","l","a","c","k">>
A_keyboard_black ==
    <<"w","i","r","e","l","e","s","s"," ","k","e","y","b","o","a","r","d",
      " ","b","l","a","c","k">>
A_black_keyboard ==
    <<"b","l","a","c","k"," ","w","i","r","e","l","e","s","s"," ","k","e",
      "y","b","o","a","r","d">>
A_keyboard_wireless ==
    <<"k","e","y","b","o","a","r","d"," ","w","i","r","e","l","e","s","s">>
W_keybord == <<"k","e","y","b","o","r","d">>
W_keyboard == <<"k","e","y","b","o","a","r","d">>
W_wireless == <<"w","i","r","e","l","e","s","s">>

\* the group of the end-to-end scenario
ScenarioAliases ==
    << A_keybord_black, A_keyboard_black, A_keyboard_black, A_black_keyboard >>

\* The groups given to the pipeline: the scenario, the group of
\* test_transform_aliases_basic, a group with two typos of equal standing,
\* a group of blank text, a group that mixes blank aliases with an alias
\* without alphabetic token and a plain one, a group of two aliases of the
\* same words that occur twice each, and no alias.
GroupPool ==
    { ScenarioAliases,
      << A_keyboard_black, A_keybord_black, A_black_keyboard, A_keyboard_wireless >>,
      << W_abcd \o SP \o W_efgh, W_abce \o SP \o W_efgh >>,
      << <<" ">>, <<>> >>,
      << W_abcd \o <<"1">>, <<" ">>, W_abce \o SP \o W_efgh, <<>> >>,
      << W_abcd \o SP \o W_efgh, W_efgh \o SP \o W_abcd,
         W_efgh \o SP \o W_abcd, W_abcd \o SP \o W_efgh >>,
      <<>> }

\* a call of a function of alias_cleaning.py, and what it returned
Call(fn, args) == [ fn |-> fn, args |-> args ]
NoCall == Call("none", <<>>)
NotReturned == [ done |-> FALSE, value |-> <<>> ]
Returned(value) == [ done |-> TRUE, value |-> value ]

CallPool ==
    { Call("_normalize", [ s |-> s ]) : s \in TextPool }
    \cup { Call("_norm_tokens", [ s |-> s ]) : s \in TextPool }
    \cup { Call("build_rep_map_typo_collapse",
                [ token_lists |-> tl, max_edit_distance |-> d, min_rep_len |-> m ]) :
             tl \in SeqsUpTo(TokenListPool, MaxGroup), d \in { 1, 2 }, m \in { 3, 4 } }
    \cup { Call("most_frequent_canonical_tokens",
                [ transformed_token_lists |-> tl, top_m |-> m, use_presence |-> u ]) :
             tl \in SeqsUpTo(TokenListPool, MaxGroup), m \in { 0, 1, 2 },
             u \in BOOLEAN }
    \cup { Call("rank_by_tokens", [ aliases |-> al, target_tokens |-> tt, k |-> k ]) :
             al \in SeqsUpTo(RankAliasPool, MaxGroup), tt \in RankTargetPool,
             k \in { 1, 2 } }
    \cup { Call("process_sku_group", [ sku_id |-> SKU1, descriptions |-> al ]) :
             al \in GroupPool }
    \cup { Call("transform_aliases_with_canonical_tokens",
                [ aliases |-> al, max_edit_distance |-> d, min_rep_len |-> 4,
                  top_m_canonical_tokens |-> m, top_k_original |-> k ]) :
             al \in GroupPool, d \in { 1, 2 }, m \in { 2, 5 }, k \in { 2, 3 } }

(***************************************************************************)
(* Two generate-seed runs that share one seed file.                        *)
(***************************************************************************)

\* the runs
ProcIds == { 1, 2 }

\* A run before it starts.  pc is "start", then "merge" once the seed is
\* read, then "done"; existing is the seed file as the run found it, rows
\* the seed it wrote, and turn its place among the runs that have ended.
IdleProc ==
    [ pc |-> "start", existing |-> NoSeedFile,
      approved |-> [ columns |-> <<>>, rows |-> <<>> ],
      version_arg |-> <<>>, eff_arg |-> "", written |-> FALSE, rows |-> <<>>,
      turn |-> 0 ]

VARIABLES
    candidates,   \* the loaded candidate table, per sku_id: its descriptions in row order
    phase,        \* "load" | "process" | "done": where the export run is
    results,      \* export_sku_curation_table's list of processed groups
    exported,     \* the written curation table
    seed_file,    \* the seed CSV at --seed-path: exists, columns, rows
    runs,         \* the number of generate-seed runs so far
    last_run,     \* the latest generate-seed run: the seed file it found, its
                  \* arguments and its outcome
    call,         \* the function of alias_cleaning.py being called, with its arguments
    ret,          \* what the call returned, once it has
    proc,         \* per concurrent generate-seed run: where it is and what it read
    overlap       \* a run read the seed while another run was between read and write

curVars == << candidates, phase, results, exported >>

seedVars == << seed_file, runs, last_run >>

fnVars == << call, ret >>

concVars == << proc, overlap >>

vars == << candidates, phase, results, exported, seed_file, runs, last_run, call, ret, proc, overlap >>

RECURSIVE SumLen(_, _)
SumLen(f, S) ==
    IF S = {} THEN 0
    ELSE LET x == CHOOSE x \in S : TRUE IN Len(f[x]) + SumLen(f, S \ {x})

\* the keys of df.groupby('sku_id'): the sku_ids that have a row
GroupKeys(cands) == { k \in DOMAIN cands : cands[k] # <<>> }

\* groupby iterates its keys in ascending order: the smallest key not yet processed
NextGroupKey(cands, done) ==
    LET left == { k \in GroupKeys(cands) : \A i \in 1..Len(done) : done[i].sku_id # k }
    IN  CHOOSE k \in left : \A j \in left \ {k} : StrLess(k, j)

AllGroupsDone(cands, done) ==
    \A k \in GroupKeys(cands) : \E i \in 1..Len(done) : done[i].sku_id = k

CurInit ==
    /\ candidates = [ k \in SkuPool |-> <<>> ]
    /\ phase = "load"
    /\ results = <<>>
    /\ exported = <<>>
    /\ seed_file = NoSeedFile
    /\ runs = 0
    /\ last_run = NoRun
    /\ call = NoCall
    /\ ret = NotReturned
    /\ proc = [ p \in ProcIds |-> IdleProc ]
    /\ overlap = FALSE

\* one more row of cur_sku_name_candidates, as load_sku_candidates returns it
AddCandidate(sku, alias) ==
    /\ phase = "load"
    /\ SumLen(candidates, SkuPool) < MaxRows
    /\ candidates' = [ candidates EXCEPT ![sku] = Append(@, alias) ]
    /\ UNCHANGED << phase, results, exported >>

\* export_sku_curation_table: the table is loaded and grouped
BeginExport ==
    /\ phase = "load"
    /\ phase' = "process"
    /\ UNCHANGED << candidates, results, exported >>

\* one iteration of the loop over the groups
ProcessGroup ==
    /\ phase = "process"
    /\ ~AllGroupsDone(candidates, results)
    /\ LET sku_id == NextGroupKey(candidates, results)
       IN  results' = Append(results, process_sku_group(sku_id, candidates[sku_id]))
    /\ UNCHANGED << candidates, phase, exported >>

\* output_df.to_csv(output_path)
WriteExport ==
    /\ phase = "process"
    /\ AllGroupsDone(candidates, results)
    /\ exported' = results
    /\ phase' = "done"
    /\ UNCHANGED << candidates, results >>

CurNext ==
    /\ \/ \E sku \in SkuPool, alias \in AliasPool : AddCandidate(sku, alias)
       \/ BeginExport
       \/ ProcessGroup
       \/ WriteExport
    /\ UNCHANGED << seedVars, fnVars, concVars >>

CurationSpec == CurInit /\ [][CurNext]_vars

(***************************************************************************)
(* The generate-seed runs, one after the other.                            *)
(***************************************************************************)

SeedInit ==
    /\ seed_file \in InitialSeedFiles
    /\ runs = 0
    /\ last_run = NoRun
    /\ candidates = [ k \in SkuPool |-> <<>> ]
    /\ phase = "load"
    /\ results = <<>>
    /\ exported = <<>>
    /\ call = NoCall
    /\ ret = NotReturned
    /\ proc = [ p \in ProcIds |-> IdleProc ]
    /\ overlap = FALSE

\* what the log keeps of a run: whether --version was absent, the version
\* the run decided on, and whether it wrote a seed holding a row that was
\* not among the rows it read (a row it inserted or put in place of another)
LogEntry(file, version_arg, out) ==
    [ auto |-> version_arg = <<>>,
      version |-> out.version,
      changed |-> /\ out.written
                  /\ \E i \in 1..Len(out.file.rows) :
                        out.file.rows[i] \notin Range(ReadSeedRows(file.rows)) ]

\* one run of main() on the seed file
GenerateSeed(approved, version_arg, eff_arg) ==
    /\ runs < MaxRuns
    /\ \E out \in { main(seed_file, approved, version_arg, eff_arg, Today) } :
           /\ seed_file' = out.file
           /\ last_run' = [ before |-> seed_file, approved |-> approved,
                            version_arg |-> version_arg,
                            eff_arg |-> eff_arg, written |-> out.written,
                            error |-> out.error, version |-> out.version,
                            eff_from |-> out.eff_from,
                            log |-> Append(last_run.log,
                                           LogEntry(seed_file, version_arg, out)) ]
    /\ runs' = runs + 1

SeedNext ==
    /\ \E approved \in ApprovedPool, version_arg \in VersionArgs, eff_arg \in EffArgs :
          GenerateSeed(approved, version_arg, eff_arg)
    /\ UNCHANGED << curVars, fnVars, concVars >>

SeedSpec == SeedInit /\ [][SeedNext]_vars

(***************************************************************************)
(* Properties of the curation export.                                      *)
(***************************************************************************)

\* the ranked aliases of a processed group, recomputed from its descriptions
RankedOf(sku_id) ==
    LET al == SelectSeq(candidates[sku_id], NotBlank)
        token_lists == [ i \in 1..Len(al) |-> _norm_tokens(al[i]) ]
        rep_map == build_rep_map_typo_collapse(token_lists, CliMaxEditDistance,
                                               CliMinRepLen)
        canon == most_frequent_canonical_tokens(_apply_rep_map(token_lists, rep_map),
                                                CliTopM, TRUE)
    IN  [ rep_map |-> rep_map, ranked |-> rank_by_tokens(al, canon, CliTopK) ]

\* s1: the score of the rank-0 alias, 0 if there is none
S1Of(ranked) == IF Len(ranked) >= 1 THEN ranked[1].score ELSE ScoreZero
\* s2: the score of the rank-1 alias, 0 if there is none
S2Of(ranked) == IF Len(ranked) >= 2 THEN ranked[2].score ELSE ScoreZero

\* retokenize, apply rep_map, rejoin with single spaces
Canonicalized(alias, rep_map) ==
    Join(SP, [ i \in 1..Len(_norm_tokens(alias)) |->
                 RepGet(rep_map, _norm_tokens(alias)[i]) ])

\* C1: every processed group has decision AUTO exactly when s1 > s2 and
\* s1 > 80 (both strict), NEED_APPROVAL otherwise, and never a third value.
C1_DecisionRule ==
    \A i \in 1..Len(results) :
        LET r  == results[i]
            rk == RankedOf(r.sku_id).ranked
            s1 == S1Of(rk)
            s2 == S2Of(rk)
            strict == s1.n * s2.d > s2.n * s1.d /\ s1.n > 80 * s1.d
        IN  /\ r.decision \in { AUTO, NEED }
            /\ (r.decision = AUTO) <=> strict
            /\ (r.decision = NEED) <=> ~strict

\* A written export holds an AUTO record, and a NEED_APPROVAL record whose
\* top score is above 80 but tied with the runner-up.
C1_Witness ==
    /\ phase = "done"
    /\ \E i \in 1..Len(exported) : exported[i].decision = AUTO
    /\ \E i \in 1..Len(exported) :
          LET rk == RankedOf(exported[i].sku_id).ranked
          IN  /\ exported[i].decision = NEED
              /\ Len(rk) >= 2
              /\ rk[1].score = rk[2].score
              /\ rk[1].score.n > 80 * rk[1].score.d

\* C2: in every exported record final_sku_name is the canonicalized rank-0
\* alias when the decision is AUTO and the empty string when it is
\* NEED_APPROVAL; and a top score that is at most 80, or equal to the
\* runner-up's, gives NEED_APPROVAL with an empty final_sku_name.
C2_FinalSkuName ==
    \A i \in 1..Len(exported) :
        LET r  == exported[i]
            ro == RankedOf(r.sku_id)
            rk == ro.ranked
            s1 == S1Of(rk)
            s2 == S2Of(rk)
        IN  /\ r.decision = AUTO =>
                  /\ rk # <<>>
                  /\ r.final_sku_name = Canonicalized(rk[1].alias, ro.rep_map)
            /\ r.decision = NEED => r.final_sku_name = <<>>
            /\ (s1.n <= 80 * s1.d \/ s1 = s2) =>
                  r.decision = NEED /\ r.final_sku_name = <<>>

\* A written export holds an AUTO record whose final_sku_name differs from the
\* original alias text, a NEED_APPROVAL record with top score exactly 80, and
\* a NEED_APPROVAL record whose top two scores tie.
C2_Witness ==
    /\ phase = "done"
    /\ \E i \in 1..Len(exported) :
          LET rk == RankedOf(exported[i].sku_id).ranked
          IN  /\ exported[i].decision = AUTO
              /\ exported[i].final_sku_name # <<>>
              /\ exported[i].final_sku_name # rk[1].alias
    /\ \E i \in 1..Len(exported) :
          LET rk == RankedOf(exported[i].sku_id).ranked
          IN  /\ exported[i].decision = NEED
              /\ exported[i].final_sku_name = <<>>
              /\ \/ (rk # <<>> /\ rk[1].score = Frac(80, 1))
                 \/ (Len(rk) >= 2 /\ rk[1].score = rk[2].score)

\* a group has a non-blank alias
HasNonBlank(sku_id) == \E i \in 1..Len(candidates[sku_id]) : NotBlank(candidates[sku_id][i])

\* C3 as stated: match_name is the original text of the rank-0 alias and is
\* non-empty for every group that has a non-blank alias.
C3_MatchNameOriginal ==
    \A i \in 1..Len(exported) :
        LET r  == exported[i]
            rk == RankedOf(r.sku_id).ranked
        IN  HasNonBlank(r.sku_id) =>
                /\ r.match_name # <<>>
                /\ rk # <<>>
                /\ r.match_name = rk[1].alias

\* C3 as amended: match_name is the canonicalized rank-0 alias whatever the
\* decision (the text final_sku_name takes under AUTO); it is non-empty
\* exactly when an alias is ranked and the rank-0 alias has an alphabetic
\* token that is no stop word.
C3_MatchNameCanonicalized ==
    \A i \in 1..Len(exported) :
        LET r  == exported[i]
            ro == RankedOf(r.sku_id)
            rk == ro.ranked
        IN  /\ rk # <<>> => r.match_name = Canonicalized(rk[1].alias, ro.rep_map)
            /\ rk = <<>> => r.match_name = <<>>
            /\ r.match_name # <<>> <=> (rk # <<>> /\ _norm_tokens(rk[1].alias) # <<>>)
            /\ r.decision = AUTO => r.match_name = r.final_sku_name

\* A written export holds a NEED_APPROVAL record whose match_name is set and
\* differs from the original rank-0 alias, and a record of a group with a
\* non-blank alias whose match_name is empty.
C3_Witness ==
    /\ phase = "done"
    /\ \E i \in 1..Len(exported) :
          LET rk == RankedOf(exported[i].sku_id).ranked
          IN  /\ exported[i].decision = NEED
              /\ exported[i].match_name # <<>>
              /\ exported[i].match_name # rk[1].alias
    /\ \E i \in 1..Len(exported) :
          /\ HasNonBlank(exported[i].sku_id)
          /\ exported[i].match_name = <<>>

(***************************************************************************)
(* Properties of the generate-seed runs.  They are stated over the latest  *)
(* run: the seed file it found (last_run.before), the approved CSV and the *)
(* arguments it was given, and the seed file it left (seed_file).          *)
(***************************************************************************)

\* a run has happened
HasRun == runs > 0

\* the decision cell after trimming and upper-casing
Trimmed(d) == Upper(Strip(d))

\* the row's decision is APPROVED or AUTO after trimming and upper-casing
TakesPart(r) == Trimmed(r.decision) \in { APPROVED, AUTO }

\* the seed row an approved row stands for in a run
Stamped(r, run) ==
    [ sku_id |-> r.sku_id,
      canonical_name |-> Strip(r.final_sku_name),
      source |-> IF Trimmed(r.decision) = APPROVED THEN "approved_seed" ELSE "auto_ref",
      effective_from |-> run.eff_from,
      version |-> run.version ]

\* the seed rows of the approved rows of a run that take part, by sku_id
IncomingFor(run, sku) ==
    { Stamped(run.approved.rows[i], run) :
        i \in { j \in 1..Len(run.approved.rows) :
                  /\ TakesPart(run.approved.rows[j])
                  /\ run.approved.rows[j].sku_id = sku } }

\* the number of approved rows of a run that take part and carry sku
IncomingCount(run, sku) ==
    Cardinality({ j \in 1..Len(run.approved.rows) :
                    /\ TakesPart(run.approved.rows[j])
                    /\ run.approved.rows[j].sku_id = sku })

\* the rows of a seed file that carry sku
RowsFor(file, sku) ==
    { file.rows[i] : i \in { j \in 1..Len(file.rows) : file.rows[j].sku_id = sku } }

\* the sku_ids of a run: those of the seed it found and of its approved rows
SkusOf(run) ==
    { run.before.rows[i].sku_id : i \in 1..Len(run.before.rows) }
    \cup { run.approved.rows[i].sku_id : i \in 1..Len(run.approved.rows) }

\* source priority as the merge contract states it
Prio(source) ==
    CASE source = "approved_seed" -> 2
      [] source = "auto_ref" -> 1
      [] OTHER -> 0

\* a seed row as a run reads it
AsRead(row) ==
    [ sku_id |-> ReadCell(row.sku_id),
      canonical_name |-> ReadCell(row.canonical_name),
      source |-> ReadWord(row.source),
      effective_from |-> ReadWord(row.effective_from),
      version |-> ReadCell(row.version) ]

\* C4: in a run that writes the seed, a sku_id with one incoming row ends
\* with that row when the seed had no row for it; when the seed had a row,
\* it ends with the incoming row if incoming priority >= existing priority
\* (approved_seed 2, auto_ref 1, other 0; a tie goes to the incoming row) and
\* with the existing row, as the run read it, otherwise.
C4_MergePriority ==
    (HasRun /\ last_run.written) =>
        \A sku \in SkusOf(last_run) :
            LET inc == IncomingFor(last_run, sku)
                old == RowsFor(last_run.before, sku)
                new == RowsFor(seed_file, sku)
            IN  IncomingCount(last_run, sku) = 1 =>
                    /\ old = {} => new = inc
                    /\ \A o \in old, r \in inc :
                          /\ Prio(r.source) >= Prio(o.source) => new = { r }
                          /\ Prio(r.source) < Prio(o.source) => new = { AsRead(o) }

\* A run kept an approved_seed row against an incoming auto_ref row and
\* replaced an auto_ref row of another sku_id by an incoming auto_ref row.
C4_Witness ==
    /\ HasRun
    /\ last_run.written
    /\ \E sku \in SkusOf(last_run) :
          /\ IncomingCount(last_run, sku) = 1
          /\ \E o \in RowsFor(last_run.before, sku), r \in IncomingFor(last_run, sku) :
                /\ o.source = "approved_seed"
                /\ r.source = "auto_ref"
                /\ RowsFor(seed_file, sku) = { AsRead(o) }
    /\ \E sku \in SkusOf(last_run) :
          /\ IncomingCount(last_run, sku) = 1
          /\ \E o \in RowsFor(last_run.before, sku), r \in IncomingFor(last_run, sku) :
                /\ o.source = "auto_ref"
                /\ r.source = "auto_ref"
                /\ o # r
                /\ RowsFor(seed_file, sku) = { r }

\* C5: whatever runs came before, a seed row with source approved_seed is
\* still there, with the same canonical_name, source, effective_from and
\* version, after a run whose approved CSV holds an AUTO row and no APPROVED
\* row for its sku_id: incoming AUTO rows never change it.
C5_ApprovedNotOverwrittenByAuto ==
    HasRun =>
        \A sku \in SkusOf(last_run) :
            \A o \in RowsFor(last_run.before, sku) :
                (/\ o.source = "approved_seed"
                 /\ \E i \in 1..Len(last_run.approved.rows) :
                       /\ last_run.approved.rows[i].sku_id = sku
                       /\ Trimmed(last_run.approved.rows[i].decision) = AUTO
                 /\ ~\E i \in 1..Len(last_run.approved.rows) :
                       /\ last_run.approved.rows[i].sku_id = sku
                       /\ Trimmed(last_run.approved.rows[i].decision) = APPROVED)
                => RowsFor(seed_file, sku) = { o }

\* C6: a seed that a run has written holds no sku_id twice.
C6_UniqueSkuId ==
    (HasRun /\ last_run.written) =>
        /\ seed_file.exists
        /\ \A i \in 1..Len(seed_file.rows), j \in 1..Len(seed_file.rows) :
              seed_file.rows[i].sku_id = seed_file.rows[j].sku_id => i = j

\* A run whose approved CSV held two rows that take part for one sku_id found
\* a seed with rows, and wrote a seed with one row for that sku_id.
C6_Witness ==
    /\ HasRun
    /\ last_run.written
    /\ last_run.before.rows # <<>>
    /\ \E sku \in SkusOf(last_run) :
          /\ IncomingCount(last_run, sku) = 2
          /\ Cardinality({ i \in 1..Len(seed_file.rows) : seed_file.rows[i].sku_id = sku }) = 1

\* the approved CSV of a run lacks a required column
MissingApprovedCols(run) ==
    ~({ H_sku_id, H_final_sku_name, H_decision }
          \subseteq Range(normalize_cols(run.approved.columns)))

\* the seed file a run found lacks a seed column
MissingSeedCols(run) ==
    run.before.exists /\ ~(Range(SEED_COLS) \subseteq run.before.columns)

\* an approved row of a run that takes part has a blank sku_id or no name
BadIncomingRow(run) ==
    \E i \in 1..Len(run.approved.rows) :
        /\ TakesPart(run.approved.rows[i])
        /\ \/ IsBlank(run.approved.rows[i].sku_id)
           \/ IsBlank(run.approved.rows[i].final_sku_name)

\* the rows hold a sku_id twice
TwiceSku(rows) ==
    \E i \in 1..Len(rows), j \in 1..Len(rows) : i < j /\ rows[i].sku_id = rows[j].sku_id

\* the rows hold a blank canonical_name
BlankName(rows) == \E i \in 1..Len(rows) : IsBlank(rows[i].canonical_name)

\* C7: a run that does not write leaves the seed file exactly as it found
\* it; a run does not write when the approved CSV or the seed file lacks a
\* required column, when an APPROVED/AUTO row has a blank sku_id or an empty
\* name, or when the merged seed would hold a sku_id twice or a row without
\* a name; and a seed is written only when none of these is the case.
C7_AllOrNothing ==
    HasRun =>
        /\ ~last_run.written => seed_file = last_run.before
        /\ MissingApprovedCols(last_run) => ~last_run.written
        /\ MissingSeedCols(last_run) => ~last_run.written
        /\ BadIncomingRow(last_run) => ~last_run.written
        /\ (/\ last_run.before.rows = <<>>
            /\ \E sku \in SkusOf(last_run) : IncomingCount(last_run, sku) > 1)
           => ~last_run.written
        /\ TwiceSku(last_run.before.rows) => ~last_run.written
        /\ (\E i \in 1..Len(last_run.before.rows) :
               /\ IsBlank(last_run.before.rows[i].canonical_name)
               /\ IncomingCount(last_run, last_run.before.rows[i].sku_id) = 0)
           => ~last_run.written
        /\ last_run.written =>
              /\ last_run.error = ""
              /\ seed_file.exists
              /\ seed_file.columns = Range(SEED_COLS)
              /\ ~TwiceSku(seed_file.rows)
              /\ ~BlankName(seed_file.rows)

\* A run found a seed file with rows, merged a row into it, met a row
\* without a name in the merged seed, and left the file as it was.
C7_Witness ==
    /\ HasRun
    /\ ~last_run.written
    /\ last_run.error = "Empty canonical_name in final seed after merge"
    /\ last_run.before.rows # <<>>
    /\ \E sku \in SkusOf(last_run) :
          IncomingCount(last_run, sku) = 1 /\ RowsFor(last_run.before, sku) = {}
    /\ seed_file = last_run.before

V_0_1 == <<"v","0",".","1">>
V_1_9 == <<"v","1",".","9">>
V_1_10 == <<"v","1",".","1","0">>
V_1_11 == <<"v","1",".","1","1">>
V_2 == <<"v","2">>
V_2_1 == <<"v","2",".","1">>
V_2_3 == <<"v","2",".","3">>
V_2_4 == <<"v","2",".","4">>
V_foo == <<"f","o","o">>

\* the version cells of the seed a run found
VersionsOf(run) == { run.before.rows[i].version : i \in 1..Len(run.before.rows) }

\* C8: a run without a version argument that can read the seed takes
\* v{MAJOR}.{MINOR+1}, (MAJOR, MINOR) the greatest pair of integers among
\* the parsed versions of the seed's rows: v0.1 for a seed without rows;
\* v2.4 for {v2.3, v1.9}; v1.11 for {v1.10, v1.9}; v2.1 for {v2, foo}
\* (a missing minor is 0, an unparseable version is (0, 0)); v0.1 for an
\* empty version cell; and whatever its versions are, a seed with unique
\* sku_ids and names is written again by a run with no approved row.
C8_AutoVersion ==
    (HasRun /\ last_run.version_arg = <<>> /\ ~MissingSeedCols(last_run)) =>
        LET rows   == last_run.before.rows
            parsed == { semver_tuple(v) : v \in VersionsOf(last_run) }
        IN  /\ rows = <<>> => last_run.version = V_0_1
            /\ rows # <<>> =>
                  \E t \in parsed :
                      /\ \A u \in parsed : u[1] < t[1] \/ (u[1] = t[1] /\ u[2] <= t[2])
                      /\ last_run.version =
                            <<"v">> \o IntToStr(t[1]) \o <<".">> \o IntToStr(t[2] + 1)
            /\ VersionsOf(last_run) = { V_2_3, V_1_9 } => last_run.version = V_2_4
            /\ VersionsOf(last_run) = { V_1_10, V_1_9 } => last_run.version = V_1_11
            /\ VersionsOf(last_run) = { V_2, V_foo } => last_run.version = V_2_1
            /\ VersionsOf(last_run) = { <<>> } => last_run.version = V_0_1
            /\ (/\ ~MissingApprovedCols(last_run)
                /\ last_run.approved.rows = <<>>
                /\ ~TwiceSku(last_run.before.rows)
                /\ ~BlankName(last_run.before.rows))
               => last_run.written

\* The second of two runs found a seed with the versions v1.10 and v1.9, was
\* given no version, and took v1.11.
C8_Witness ==
    /\ runs = 2
    /\ last_run.version_arg = <<>>
    /\ VersionsOf(last_run) = { V_1_10, V_1_9 }
    /\ last_run.version = V_1_11
    /\ last_run.written

\* C9: a run has one effective_from (the argument when given, else the
\* current date) and one version (the argument when given, else the
\* auto-bumped one); in a written seed every row that the run did not read
\* from the seed carries both, and so does the row of every sku_id for which an
\* incoming row met no existing row or one of at most its own priority,
\* whether or not the name changed.
C9_RunStamp ==
    HasRun =>
        /\ last_run.eff_arg # "" => last_run.eff_from = last_run.eff_arg
        /\ last_run.eff_arg = "" => last_run.eff_from = Today
        /\ (last_run.version_arg # <<>> /\ ~MissingSeedCols(last_run))
              => last_run.version = last_run.version_arg
        /\ (last_run.version_arg = <<>> /\ ~MissingSeedCols(last_run))
              => last_run.version = bump_version_auto(last_run.before.rows)
        /\ last_run.written =>
              \A i \in 1..Len(seed_file.rows) :
                  LET row == seed_file.rows[i]
                      old == RowsFor(last_run.before, row.sku_id)
                      inc == IncomingFor(last_run, row.sku_id)
                      touched ==
                          \/ row \notin { AsRead(o) : o \in old }
                          \/ \E r \in inc : \A o \in old : Prio(r.source) >= Prio(o.source)
                  IN  touched =>
                          /\ row.version = last_run.version
                          /\ row.effective_from = last_run.eff_from

\* A run with a date argument replaced an approved_seed row by an incoming
\* APPROVED row with the same name: the row's name and source are as before,
\* its effective_from and version are the run's.
C9_Witness ==
    /\ HasRun
    /\ last_run.written
    /\ last_run.eff_arg # ""
    /\ last_run.version_arg = <<>>
    /\ \E sku \in SkusOf(last_run) :
          \E o \in RowsFor(last_run.before, sku), n \in RowsFor(seed_file, sku) :
              /\ IncomingCount(last_run, sku) = 1
              /\ o.source = "approved_seed"
              /\ n.source = "approved_seed"
              /\ n.canonical_name = o.canonical_name
              /\ n.version = last_run.version
              /\ n.version # o.version
              /\ n.effective_from = last_run.eff_arg
              /\ n.effective_from # o.effective_from

\* C10: a run whose approved CSV holds rows, none of them with the decision
\* APPROVED or AUTO after trimming and upper-casing, inserts no seed row and
\* leaves every row of the seed as it was.
C10_OnlyApprovedAndAuto ==
    (/\ HasRun
     /\ last_run.approved.rows # <<>>
     /\ \A i \in 1..Len(last_run.approved.rows) :
           Trimmed(last_run.approved.rows[i].decision) \notin { APPROVED, AUTO })
    => /\ Range(seed_file.rows) = Range(last_run.before.rows)
       /\ Len(seed_file.rows) = Len(last_run.before.rows)

(***************************************************************************)
(* The curation engine on groups without usable text, and the functions    *)
(* of alias_cleaning.py taken one at a time.                               *)
(***************************************************************************)

\* the result of the pipeline for the group of a sku_id, with the CLI's parameters
PipelineOf(sku_id) ==
    transform_aliases_with_canonical_tokens(candidates[sku_id], CliMaxEditDistance, CliMinRepLen, CliTopM, CliTopK)

\* C11 as stated: a group with no non-blank alias is a validation error, so
\* no record is ever produced for such a group.
C11_BlankGroupRejected ==
    \A i \in 1..Len(results) : HasNonBlank(results[i].sku_id)

\* C11 as amended: a group with no non-blank alias is no error; the pipeline
\* returns the empty result for it, and its record is produced and exported
\* with decision NEED_APPROVAL, score 0 and empty match_name and
\* final_sku_name.
C11_BlankGroupRecord ==
    /\ \A i \in 1..Len(results) :
          LET r == results[i]
          IN  ~HasNonBlank(r.sku_id) =>
                  /\ PipelineOf(r.sku_id).top_k_original = <<>>
                  /\ PipelineOf(r.sku_id).top_k_canonicalized = <<>>
                  /\ PipelineOf(r.sku_id).canonical_tokens = <<>>
                  /\ PipelineOf(r.sku_id).transformed_aliases = <<>>
                  /\ DOMAIN PipelineOf(r.sku_id).rep_map = {}
                  /\ r.decision = NEED
                  /\ r.match_score = [ n |-> 0, d |-> 1 ]
                  /\ r.match_name = <<>>
                  /\ r.final_sku_name = <<>>
    /\ phase = "done" =>
          \A k \in GroupKeys(candidates) : \E i \in 1..Len(exported) : exported[i].sku_id = k

\* A written export holds the record of a group whose aliases are all blank,
\* beside the record of a group with text.
C11_Witness ==
    /\ phase = "done"
    /\ \E i \in 1..Len(exported) :
          /\ candidates[exported[i].sku_id] # <<>>
          /\ ~HasNonBlank(exported[i].sku_id)
    /\ \E i \in 1..Len(exported) : HasNonBlank(exported[i].sku_id)

(***************************************************************************)
(* The functions of alias_cleaning.py, each called on its own.             *)
(***************************************************************************)

AliasInit ==
    /\ call \in CallPool
    /\ ret = NotReturned
    /\ candidates = [ k \in SkuPool |-> <<>> ]
    /\ phase = "load"
    /\ results = <<>>
    /\ exported = <<>>
    /\ seed_file = NoSeedFile
    /\ runs = 0
    /\ last_run = NoRun
    /\ proc = [ p \in ProcIds |-> IdleProc ]
    /\ overlap = FALSE

Normalize ==
    /\ call.fn = "_normalize"
    /\ ~ret.done
    /\ ret' = Returned(_normalize(call.args.s))
    /\ UNCHANGED call

NormTokens ==
    /\ call.fn = "_norm_tokens"
    /\ ~ret.done
    /\ ret' = Returned(_norm_tokens(call.args.s))
    /\ UNCHANGED call

BuildRepMap ==
    /\ call.fn = "build_rep_map_typo_collapse"
    /\ ~ret.done
    /\ ret' = Returned(build_rep_map_typo_collapse(call.args.token_lists, call.args.max_edit_distance, call.args.min_rep_len))
    /\ UNCHANGED call

CanonicalTokens ==
    /\ call.fn = "most_frequent_canonical_tokens"
    /\ ~ret.done
    /\ ret' = Returned(most_frequent_canonical_tokens(call.args.transformed_token_lists, call.args.top_m, call.args.use_presence))
    /\ UNCHANGED call

RankByTokens ==
    /\ call.fn = "rank_by_tokens"
    /\ ~ret.done
    /\ ret' = Returned(rank_by_tokens(call.args.aliases, call.args.target_tokens, call.args.k))
    /\ UNCHANGED call

TransformAliases ==
    /\ call.fn = "transform_aliases_with_canonical_tokens"
    /\ ~ret.done
    /\ ret' = Returned(transform_aliases_with_canonical_tokens(call.args.aliases, call.args.max_edit_distance, call.args.min_rep_len, call.args.top_m_canonical_tokens, call.args.top_k_original))
    /\ UNCHANGED call

ProcessSkuGroup ==
    /\ call.fn = "process_sku_group"
    /\ ~ret.done
    /\ ret' = Returned(process_sku_group(call.args.sku_id, call.args.descriptions))
    /\ UNCHANGED call

AliasNext ==
    /\ \/ ProcessSkuGroup
       \/ Normalize
       \/ NormTokens
       \/ BuildRepMap
       \/ CanonicalTokens
       \/ RankByTokens
       \/ TransformAliases
    /\ UNCHANGED << curVars, seedVars, concVars >>

AliasSpec == AliasInit /\ [][AliasNext]_vars

(***************************************************************************)
(* Properties of the functions of alias_cleaning.py.                       *)
(***************************************************************************)

\* the call of fn has returned
ReturnedFrom(fn) == call.fn = fn /\ ret.done

\* the distinct tokens of a list of token lists
VocabOf(token_lists) == UNION { Range(token_lists[i]) : i \in 1..Len(token_lists) }

\* the number of occurrences of t in the token lists, repeats included
FreqOf(token_lists, t) ==
    Cardinality(UNION { { <<i, j>> : j \in { k \in 1..Len(token_lists[i]) :
                                                 token_lists[i][k] = t } } :
                        i \in 1..Len(token_lists) })

\* r may stand for t
Eligible(t, r, max_edit_distance, min_rep_len) ==
    r = t \/ (Len(r) >= min_rep_len /\ Levenshtein(t, r) <= max_edit_distance)

\* r comes before q when sorted by (frequency descending, length descending,
\* lexicographic ascending)
BeforeLexAscending(token_lists, r, q) ==
    \/ FreqOf(token_lists, r) > FreqOf(token_lists, q)
    \/ FreqOf(token_lists, r) = FreqOf(token_lists, q) /\ Len(r) > Len(q)
    \/ FreqOf(token_lists, r) = FreqOf(token_lists, q) /\ Len(r) = Len(q) /\ StrLess(r, q)

\* r comes before q when sorted by (frequency descending, length descending,
\* lexicographic descending)
BeforeLexDescending(token_lists, r, q) ==
    \/ FreqOf(token_lists, r) > FreqOf(token_lists, q)
    \/ FreqOf(token_lists, r) = FreqOf(token_lists, q) /\ Len(r) > Len(q)
    \/ FreqOf(token_lists, r) = FreqOf(token_lists, q) /\ Len(r) = Len(q) /\ StrLess(q, r)

\* two distinct tokens of equal frequency and equal length within the edit distance
TiedNeighbours(token_lists, x, y, max_edit_distance) ==
    /\ x # y
    /\ FreqOf(token_lists, x) = FreqOf(token_lists, y)
    /\ Len(x) = Len(y)
    /\ Levenshtein(x, y) <= max_edit_distance

\* C12 as stated: rep_map[t] is the first candidate that may stand for t in
\* the order (frequency descending, length descending, lexicographic
\* ascending), and two tokens of equal frequency and length within the edit
\* distance collapse onto the lexicographically smaller one.
C12_FirstInAscendingOrder ==
    ReturnedFrom("build_rep_map_typo_collapse") =>
        LET tl == call.args.token_lists
            d  == call.args.max_edit_distance
            m  == call.args.min_rep_len
            rep_map == ret.value
        IN  /\ DOMAIN rep_map = VocabOf(tl)
            /\ \A t \in VocabOf(tl) :
                  /\ rep_map[t] \in VocabOf(tl)
                  /\ Eligible(t, rep_map[t], d, m)
                  /\ \A q \in VocabOf(tl) \ { rep_map[t] } :
                        Eligible(t, q, d, m) => BeforeLexAscending(tl, rep_map[t], q)
            /\ \A x \in VocabOf(tl), y \in VocabOf(tl) :
                  TiedNeighbours(tl, x, y, d) /\ StrLess(x, y) /\ Len(x) >= m
                      => rep_map[x] = rep_map[y]

\* C12 as amended: the order is (frequency descending, length descending,
\* lexicographic descending); rep_map[t] is the first candidate of that order
\* that may stand for t; and two tokens of equal frequency and equal length
\* (at least min_rep_len) within the edit distance collapse onto the
\* lexicographically larger one when no candidate before it may stand for
\* either.
C12_FirstInDescendingOrder ==
    ReturnedFrom("build_rep_map_typo_collapse") =>
        LET tl == call.args.token_lists
            d  == call.args.max_edit_distance
            m  == call.args.min_rep_len
            rep_map == ret.value
        IN  /\ DOMAIN rep_map = VocabOf(tl)
            /\ \A t \in VocabOf(tl) :
                  /\ rep_map[t] \in VocabOf(tl)
                  /\ Eligible(t, rep_map[t], d, m)
                  /\ \A q \in VocabOf(tl) \ { rep_map[t] } :
                        Eligible(t, q, d, m) => BeforeLexDescending(tl, rep_map[t], q)
            /\ \A x \in VocabOf(tl), y \in VocabOf(tl) :
                  ( /\ TiedNeighbours(tl, x, y, d)
                    /\ StrLess(x, y)
                    /\ Len(y) >= m
                    /\ \A q \in VocabOf(tl) \ { x, y } :
                          BeforeLexDescending(tl, q, y)
                              => ~Eligible(x, q, d, m) /\ ~Eligible(y, q, d, m) )
                      => rep_map[x] = y /\ rep_map[y] = y

\* A call has returned a map in which a token collapsed onto a tied
\* neighbour that is lexicographically larger, while a shorter token of the
\* same frequency collapsed onto a longer one.
C12_Witness ==
    /\ ReturnedFrom("build_rep_map_typo_collapse")
    /\ \E x \in VocabOf(call.args.token_lists), y \in VocabOf(call.args.token_lists) :
          /\ TiedNeighbours(call.args.token_lists, x, y, call.args.max_edit_distance)
          /\ StrLess(x, y)
          /\ ret.value[x] = y
          /\ ret.value[y] = y
    /\ \E x \in VocabOf(call.args.token_lists) :
          /\ ret.value[x] # x
          /\ FreqOf(call.args.token_lists, ret.value[x]) = FreqOf(call.args.token_lists, x)
          /\ Len(ret.value[x]) > Len(x)

\* the number of token lists that contain t at least once
PresenceOf(token_lists, t) ==
    Cardinality({ i \in 1..Len(token_lists) :
                    \E j \in 1..Len(token_lists[i]) : token_lists[i][j] = t })

\* x comes before y when ranked by (presence count descending, length
\* descending, lexicographic ascending)
RankedBefore(token_lists, x, y) ==
    \/ PresenceOf(token_lists, x) > PresenceOf(token_lists, y)
    \/ PresenceOf(token_lists, x) = PresenceOf(token_lists, y) /\ Len(x) > Len(y)
    \/ PresenceOf(token_lists, x) = PresenceOf(token_lists, y) /\ Len(x) = Len(y) /\ StrLess(x, y)

\* C13: in presence mode most_frequent_canonical_tokens returns the first M
\* tokens (all of them when there are fewer) of the ranking of the distinct
\* tokens by (number of token lists containing the token, descending; token
\* length descending; lexicographic ascending), in that order.
C13_PresenceRanking ==
    (ReturnedFrom("most_frequent_canonical_tokens") /\ call.args.use_presence) =>
        LET tl == call.args.transformed_token_lists
            out == ret.value
        IN  /\ Len(out) = Min2(call.args.top_m, Cardinality(VocabOf(tl)))
            /\ Range(out) \subseteq VocabOf(tl)
            /\ \A i \in 1..Len(out), j \in 1..Len(out) :
                  i < j => RankedBefore(tl, out[i], out[j])
            /\ \A i \in 1..Len(out) : \A q \in VocabOf(tl) \ Range(out) :
                  RankedBefore(tl, out[i], q)

\* A presence-mode call has returned two tokens although a token repeated
\* inside one alias occurs as often as the first of them, and the second
\* was preferred to a token of equal presence and length by its text.
C13_Witness ==
    /\ ReturnedFrom("most_frequent_canonical_tokens")
    /\ call.args.use_presence
    /\ Len(ret.value) = 2
    /\ \E t \in VocabOf(call.args.transformed_token_lists) :
          /\ t # ret.value[1]
          /\ FreqOf(call.args.transformed_token_lists, t)
                 > PresenceOf(call.args.transformed_token_lists, t)
          /\ FreqOf(call.args.transformed_token_lists, t)
                 >= FreqOf(call.args.transformed_token_lists, ret.value[1])
    /\ \E q \in VocabOf(call.args.transformed_token_lists) \ Range(ret.value) :
          /\ PresenceOf(call.args.transformed_token_lists, q)
                 = PresenceOf(call.args.transformed_token_lists, ret.value[2])
          /\ Len(q) = Len(ret.value[2])
          /\ StrLess(ret.value[2], q)

\* the number of positions of the alias list that hold exactly the text a
OccurrencesOf(aliases, a) == Cardinality({ i \in 1..Len(aliases) : aliases[i] = a })

\* the text has a character that is no whitespace
HasText(a) == \E i \in 1..Len(a) : a[i] \notin { " ", "\t" }

\* C14: rank_by_tokens returns at most K tuples (alias, score, frequency);
\* each alias is a non-blank alias of the input, returned no more often than
\* it occurs there; the tuples are ordered by score descending, then
\* frequency descending; every score lies in [0,100]; every frequency is the
\* number of exact occurrences of the alias in the input (at least 1); and
\* the result is empty when the target token list is empty.
C14_RankByTokens ==
    ReturnedFrom("rank_by_tokens") =>
        LET aliases == call.args.aliases
            out == ret.value
        IN  /\ Len(out) <= call.args.k
            /\ \A i \in 1..Len(out) :
                  /\ HasText(out[i].alias)
                  /\ \E j \in 1..Len(aliases) : aliases[j] = out[i].alias
                  /\ Cardinality({ j \in 1..Len(out) : out[j].alias = out[i].alias })
                         <= OccurrencesOf(aliases, out[i].alias)
                  /\ out[i].score.d > 0
                  /\ out[i].score.n >= 0
                  /\ out[i].score.n <= 100 * out[i].score.d
                  /\ out[i].freq = OccurrencesOf(aliases, out[i].alias)
                  /\ out[i].freq >= 1
            /\ \A i \in 1..Len(out), j \in 1..Len(out) :
                  i < j =>
                      \/ out[i].score.n * out[j].score.d > out[j].score.n * out[i].score.d
                      \/ /\ out[i].score = out[j].score
                         /\ out[i].freq >= out[j].freq
            /\ call.args.target_tokens = <<>> => out = <<>>

\* A call has returned K = 2 tuples out of three non-blank aliases of equal
\* score: the alias that occurs twice fills both places, ahead of the alias
\* that occurs once although that one came first in the input.
C14_Witness ==
    /\ ReturnedFrom("rank_by_tokens")
    /\ call.args.k = 2
    /\ Len(ret.value) = 2
    /\ Len(call.args.aliases) = 3
    /\ \A i \in 1..3 : HasText(call.args.aliases[i])
    /\ ret.value[1] = ret.value[2]
    /\ ret.value[1].freq = 2
    /\ call.args.aliases[1] # ret.value[1].alias
    /\ token_sort_ratio(_normalize(call.args.aliases[1]),
                        _normalize(Join(SP, call.args.target_tokens)))
           = ret.value[1].score

\* the pipeline has returned from the end-to-end scenario: the scenario's
\* group with max_edit_distance = 1, top_m = 2, top_k = 2
ScenarioReturned ==
    /\ ReturnedFrom("transform_aliases_with_canonical_tokens")
    /\ call.args.aliases = ScenarioAliases
    /\ call.args.max_edit_distance = 1
    /\ call.args.top_m_canonical_tokens = 2
    /\ call.args.top_k_original = 2

\* the decision the engine takes on the scores of the two top aliases
ScenarioDecision ==
    Decision(ret.value.top_k_canonicalized[1].score, ret.value.top_k_canonicalized[2].score)

C16_NormalizeIdempotent ==
    ReturnedFrom("_normalize") =>
        LET out == ret.value
        IN  /\ _normalize(out) = out
            /\ \A i \in 1..Len(out) :
                  /\ ~IsUpper(out[i])
                  /\ IsWord(out[i]) \/ out[i] = " "
                  /\ out[i] = " " => i > 1 /\ i < Len(out) /\ out[i + 1] # " "
            /\ \A i \in 1..Len(Split(out)) : Split(out)[i] \notin ENGLISH_STOP_WORDS

\* A call has returned a non-empty text from a text with an upper-case
\* letter, a punctuation character and a stop word.
C16_Witness ==
    /\ ReturnedFrom("_normalize")
    /\ ret.value # <<>>
    /\ \E i \in 1..Len(call.args.s) : IsUpper(call.args.s[i])
    /\ \E i \in 1..Len(call.args.s) : call.args.s[i] = "-"
    /\ \E i \in 1..Len(Split(PunctSub(Lower(call.args.s)))) :
          Split(PunctSub(Lower(call.args.s)))[i] \in ENGLISH_STOP_WORDS

\* the indices of the tokens that consist of letters only
LetterTokens(toks) ==
    { i \in 1..Len(toks) :
        /\ toks[i] # <<>>
        /\ \A k \in 1..Len(toks[i]) : IsLower(toks[i][k]) \/ IsUpper(toks[i][k]) }

\* C17: _norm_tokens(s) is the list of the tokens of normalize(s) that
\* consist solely of letters, in their order and with duplicates kept; no
\* returned token holds a digit or an underscore; and an empty or
\* whitespace-only text gives the empty list.
C17_NormTokens ==
    ReturnedFrom("_norm_tokens") =>
        LET toks == Split(_normalize(call.args.s))
            keep == LetterTokens(toks)
            out  == ret.value
        IN  /\ Len(out) = Cardinality(keep)
            /\ \A i \in keep : out[Cardinality({ j \in keep : j <= i })] = toks[i]
            /\ \A i \in 1..Len(out) : \A k \in 1..Len(out[i]) :
                  ~IsDigit(out[i][k]) /\ out[i][k] # "_"
            /\ (\A i \in 1..Len(call.args.s) : call.args.s[i] = " ") => out = <<>>

\* A call has returned a letter token while dropping a token that holds a
\* digit or an underscore.
C17_Witness ==
    /\ ReturnedFrom("_norm_tokens")
    /\ ret.value # <<>>
    /\ \E i \in 1..Len(Split(_normalize(call.args.s))) :
          \E k \in 1..Len(Split(_normalize(call.args.s))[i]) :
              \/ IsDigit(Split(_normalize(call.args.s))[i][k])
              \/ Split(_normalize(call.args.s))[i][k] = "_"

(***************************************************************************)
(* The pipeline: one curation export, reviewed, then fed to generate-seed. *)
(***************************************************************************)

\* the columns of the curation export
ExportCols ==
    << H_sku_id,
       <<"r","a","w","_","n","a","m","e","s">>,
       <<"m","a","t","c","h","_","n","a","m","e">>,
       <<"m","a","t","c","h","_","s","c","o","r","e">>,
       H_final_sku_name,
       H_decision >>

\* a hand-written seed whose rows are not in sku_id order
UnsortedSeed ==
    SeedFile(Range(SEED_COLS),
             << SeedRow(SKU2, N_ms, "manual", "2025-01-01", <<"v","2">>),
                SeedRow(SKU1, N_kb, SRC_AUTO, "2025-01-01", <<"f","o","o">>) >>)

ReverseSeq(s) == [ i \in 1..Len(s) |-> s[Len(s) + 1 - i] ]

\* The approved CSV a reviewer makes of an export: the export as written, or
\* with every NEED_APPROVAL record that has a match_name approved under that
\* name; the rows in the order of the export, or in the opposite order.
ReviewedExport(recs, approve, reverse) ==
    LET rows == [ i \in 1..Len(recs) |->
                    IF approve /\ recs[i].decision = NEED /\ recs[i].match_name # <<>>
                    THEN ApprovedRow(recs[i].sku_id, recs[i].match_name, APPROVED)
                    ELSE ApprovedRow(recs[i].sku_id, recs[i].final_sku_name,
                                     recs[i].decision) ]
    IN  [ columns |-> ExportCols,
          rows |-> IF reverse THEN ReverseSeq(rows) ELSE rows ]

PipelineInit ==
    /\ candidates = [ k \in SkuPool |-> <<>> ]
    /\ phase = "load"
    /\ results = <<>>
    /\ exported = <<>>
    /\ seed_file = UnsortedSeed
    /\ runs = 0
    /\ last_run = NoRun
    /\ call = NoCall
    /\ ret = NotReturned
    /\ proc = [ p \in ProcIds |-> IdleProc ]
    /\ overlap = FALSE

\* generate-seed run on the reviewed export
SeedFromExport(approve, reverse) ==
    /\ phase = "done"
    /\ GenerateSeed(ReviewedExport(exported, approve, reverse), <<>>, "")
    /\ phase' = "seeded"
    /\ UNCHANGED << candidates, results, exported, fnVars, concVars >>

PipelineNext ==
    \/ CurNext
    \/ \E approve \in BOOLEAN, reverse \in BOOLEAN : SeedFromExport(approve, reverse)

PipelineSpec == PipelineInit /\ [][PipelineNext]_vars

AscendingBySku(rows) ==
    \A i \in 1..(Len(rows) - 1) : StrLess(rows[i].sku_id, rows[i + 1].sku_id)

\* C18: once the export is written it holds exactly one record per SKU group
\* of the candidate table, in ascending sku_id order; and a seed written by a
\* generate-seed run is in ascending sku_id order, whatever the order of the
\* rows of the seed it found and of the approved CSV.
C18_OutputsSorted ==
    /\ phase \in { "done", "seeded" } =>
          /\ AscendingBySku(exported)
          /\ { exported[i].sku_id : i \in 1..Len(exported) } = GroupKeys(candidates)
          /\ Len(exported) = Cardinality(GroupKeys(candidates))
    /\ last_run.written => AscendingBySku(seed_file.rows)

\* C18 witness: an export of two groups, reviewed and saved in the opposite
\* order, was merged into a seed whose rows were not in sku_id order, and the
\* seed was written with both rows.
C18_Witness ==
    /\ phase = "seeded"
    /\ Len(exported) = 2
    /\ last_run.written
    /\ ~AscendingBySku(last_run.before.rows)
    /\ Len(last_run.approved.rows) = 2
    /\ ~AscendingBySku(last_run.approved.rows)
    /\ Len(seed_file.rows) = 2

(***************************************************************************)
(* Two generate-seed runs against one seed file.  A run reads the seed     *)
(* (main, line 170), works on its own frames, and writes the merged seed   *)
(* (line 193); nothing keeps another run from reading or writing between.  *)
(***************************************************************************)

\* the seed files the two runs can find
ConcSeedFiles ==
    { NoSeedFile,
      SeedFile(Range(SEED_COLS),
               << SeedRow(SKU1, N_kb, SRC_APPROVED, "2025-01-01", <<"v","2",".","3">>),
                  SeedRow(SKU2, N_ms, SRC_AUTO, "2025-01-01", <<"v","1",".","9">>) >>),
      UnsortedSeed }

\* the approved CSVs of the two runs: a name for either SKU or for both, no
\* row, and a row that makes the run exit
ConcApprovedPool ==
    { [ columns |-> CleanCols, rows |-> b ] :
        b \in { <<>>, << R_s1_approved >>, << R_s1_auto >>, << R_s2_auto >>,
                << R_s1_approved, R_s2_auto >>, << R_s1_noname >> } }

ConcInit ==
    /\ seed_file \in ConcSeedFiles
    /\ proc = [ p \in ProcIds |-> IdleProc ]
    /\ overlap = FALSE
    /\ runs = 0
    /\ last_run = NoRun
    /\ candidates = [ k \in SkuPool |-> <<>> ]
    /\ phase = "load"
    /\ results = <<>>
    /\ exported = <<>>
    /\ call = NoCall
    /\ ret = NotReturned

\* main up to line 170: the arguments are parsed and the seed file is read
ReadSeed(p, approved, version_arg, eff_arg) ==
    /\ proc[p].pc = "start"
    /\ proc' = [ proc EXCEPT ![p] =
                   [ @ EXCEPT !.pc = "merge", !.existing = seed_file,
                              !.approved = approved, !.version_arg = version_arg,
                              !.eff_arg = eff_arg ] ]
    /\ overlap' = (overlap \/ \E q \in ProcIds \ {p} : proc[q].pc = "merge")
    /\ UNCHANGED seed_file

\* main from line 173 on: the run merges into the seed it read and, unless
\* it exits, writes the result over the seed file
WriteSeed(p) ==
    /\ proc[p].pc = "merge"
    /\ \E out \in { main(proc[p].existing, proc[p].approved, proc[p].version_arg,
                         proc[p].eff_arg, Today) } :
          /\ seed_file' = IF out.written THEN out.file ELSE seed_file
          /\ proc' = [ proc EXCEPT ![p] =
                         [ @ EXCEPT !.pc = "done", !.written = out.written,
                                    !.rows = IF out.written THEN out.file.rows ELSE <<>>,
                                    !.turn = Cardinality({ q \in ProcIds :
                                                 proc[q].pc = "done" }) + 1 ] ]
    /\ UNCHANGED overlap

ConcNext ==
    /\ \/ \E p \in ProcIds, approved \in ConcApprovedPool,
            version_arg \in VersionArgs, eff_arg \in EffArgs :
               ReadSeed(p, approved, version_arg, eff_arg)
       \/ \E p \in ProcIds : WriteSeed(p)
    /\ UNCHANGED << curVars, runs, last_run, fnVars >>

ConcSpec == ConcInit /\ [][ConcNext]_vars

\* the rows a run put into the seed: those it wrote that it had not read
AcceptedBy(p) ==
    IF proc[p].written
    THEN Range(proc[p].rows) \ Range(read_existing_seed(proc[p].existing).rows)
    ELSE {}

\* row r of run p is in the seed, or a run that ended later put a row of its
\* own in the place of r
KeptOrSuperseded(p, r) ==
    \/ r \in Range(seed_file.rows)
    \/ \E q \in ProcIds : /\ proc[q].turn > proc[p].turn
                          /\ \E r2 \in AcceptedBy(q) : r2.sku_id = r.sku_id

C20_AutoHasName ==
    \A i \in 1..Len(exported) :
        exported[i].decision = AUTO => exported[i].final_sku_name # <<>>

\* the export holds an AUTO record without a name, and the generate-seed run
\* on the export as written exited on the empty canonical_name
AutoRecordStopsSeedRun ==
    /\ phase = "seeded"
    /\ \E i \in 1..Len(exported) :
          exported[i].decision = AUTO /\ exported[i].final_sku_name = <<>>
    /\ ~last_run.written
    /\ last_run.error = "Empty canonical_name"

(***************************************************************************)
(* Relations between calls of the functions of alias_cleaning.py.          *)
(***************************************************************************)

\* aliases with the entries at positions i and j exchanged
SwapAt(aliases, i, j) ==
    [ n \in 1..Len(aliases) |->
        IF n = i THEN aliases[j] ELSE IF n = j THEN aliases[i] ELSE aliases[n] ]

\* the score rank_by_tokens gives alias a against the target tokens
ScoreAgainst(a, target_tokens) ==
    token_sort_ratio(_normalize(a), _normalize(Join(SP, target_tokens)))

\* two non-blank aliases with the same (score, frequency) pair
TiedAliases(aliases, target_tokens, i, j) ==
    /\ HasText(aliases[i]) /\ HasText(aliases[j])
    /\ ScoreAgainst(aliases[i], target_tokens) = ScoreAgainst(aliases[j], target_tokens)
    /\ OccurrencesOf(aliases, aliases[i]) = OccurrencesOf(aliases, aliases[j])

\* C21: exchanging two aliases of the input that have the same (score,
\* frequency) pair does not change what rank_by_tokens returns: the same
\* aliases, scores and frequencies in the same order.
C21_TiedOrderInvariant ==
    ReturnedFrom("rank_by_tokens") =>
        \A i \in 1..Len(call.args.aliases), j \in 1..Len(call.args.aliases) :
            (i < j /\ TiedAliases(call.args.aliases, call.args.target_tokens, i, j)) =>
                rank_by_tokens(SwapAt(call.args.aliases, i, j),
                               call.args.target_tokens, call.args.k) = ret.value

\* C22: rep_map is defined exactly on the distinct tokens of the group (the
\* empty map for a group without tokens); every token maps to itself or to
\* a token of at least min_rep_len characters within max_edit_distance; a
\* token shorter than min_rep_len stands for no token but itself; and a
\* token that no earlier candidate of the order may stand for maps to itself.
C22_RepMapShape ==
    ReturnedFrom("build_rep_map_typo_collapse") =>
        LET tl == call.args.token_lists
            d  == call.args.max_edit_distance
            m  == call.args.min_rep_len
            rep_map == ret.value
        IN  /\ DOMAIN rep_map = VocabOf(tl)
            /\ VocabOf(tl) = {} => rep_map = <<>>
            /\ \A t \in VocabOf(tl) :
                  \/ rep_map[t] = t
                  \/ /\ Len(rep_map[t]) >= m
                     /\ Levenshtein(t, rep_map[t]) <= d
            /\ \A t \in VocabOf(tl), r \in VocabOf(tl) :
                  (Len(r) < m /\ r # t) => rep_map[t] # r
            /\ \A t \in VocabOf(tl) :
                  (\A q \in VocabOf(tl) \ {t} :
                      BeforeLexDescending(tl, q, t)
                          => ~(Len(q) >= m /\ Levenshtein(t, q) <= d))
                      => rep_map[t] = t

\* A call has returned a map in which a token kept itself although a more
\* frequent token within the edit distance came before it, that token being
\* shorter than min_rep_len.
C22_Witness ==
    /\ ReturnedFrom("build_rep_map_typo_collapse")
    /\ \E t \in VocabOf(call.args.token_lists), r \in VocabOf(call.args.token_lists) :
          /\ r # t
          /\ Len(r) < call.args.min_rep_len
          /\ Levenshtein(t, r) <= call.args.max_edit_distance
          /\ FreqOf(call.args.token_lists, r) > FreqOf(call.args.token_lists, t)
          /\ ret.value[t] = t
          /\ ret.value[r] = r

\* C23: rep_map is not symmetric and not idempotent.  A token t that maps
\* to another token r never has r mapping back to t: r comes before t in the
\* candidate order.  And r may itself map to a third token r2, which then
\* comes before r in the order and is farther than max_edit_distance from
\* t, so that t is not collapsed onto it.
C23_NotSymmetricNorIdempotent ==
    ReturnedFrom("build_rep_map_typo_collapse") =>
        LET tl == call.args.token_lists
            d  == call.args.max_edit_distance
            rep_map == ret.value
        IN  \A t \in VocabOf(tl) :
                LET r == rep_map[t]
                IN  r # t =>
                      /\ BeforeLexDescending(tl, r, t)
                      /\ rep_map[r] # t
                      /\ rep_map[r] # r =>
                            /\ BeforeLexDescending(tl, rep_map[r], r)
                            /\ Levenshtein(t, rep_map[r]) > d
                            /\ rep_map[t] # rep_map[r]

\* A call has returned a map with a chain (t maps to r, r maps to a third
\* token, t does not map to that one) and with two different tokens that map
\* to the same third token and not to each other.
C23_Witness ==
    /\ ReturnedFrom("build_rep_map_typo_collapse")
    /\ \E t \in DOMAIN ret.value :
          /\ ret.value[t] # t
          /\ ret.value[ret.value[t]] # ret.value[t]
          /\ ret.value[ret.value[t]] # t
    /\ \E x \in DOMAIN ret.value, y \in DOMAIN ret.value :
          /\ x # y
          /\ ret.value[x] = ret.value[y]
          /\ ret.value[x] \notin { x, y }

\* no token occurs twice in the sequence
NoRepeats(seq) == \A i \in 1..Len(seq), j \in 1..Len(seq) : seq[i] = seq[j] => i = j

\* C24 as stated: for every M the output of most_frequent_canonical_tokens
\* has at most M tokens, holds no token twice, and is empty exactly when all
\* input token lists are empty.
C24_AtMostMForEveryM ==
    ReturnedFrom("most_frequent_canonical_tokens") =>
        /\ Len(ret.value) <= call.args.top_m
        /\ NoRepeats(ret.value)
        /\ ret.value = <<>> <=> VocabOf(call.args.transformed_token_lists) = {}

\* C24 as amended: the same for every M >= 1.
C24_AtMostM ==
    (ReturnedFrom("most_frequent_canonical_tokens") /\ call.args.top_m >= 1) =>
        /\ Len(ret.value) <= call.args.top_m
        /\ NoRepeats(ret.value)
        /\ ret.value = <<>> <=> VocabOf(call.args.transformed_token_lists) = {}

\* A call with M >= 1 on token lists that hold one token several times and
\* more than M distinct tokens has returned exactly M tokens.
C24_Witness ==
    /\ ReturnedFrom("most_frequent_canonical_tokens")
    /\ call.args.top_m >= 1
    /\ Len(ret.value) = call.args.top_m
    /\ Cardinality(VocabOf(call.args.transformed_token_lists)) > call.args.top_m
    /\ \E t \in VocabOf(call.args.transformed_token_lists) :
          FreqOf(call.args.transformed_token_lists, t) > 1

\* C25: with no non-blank alias the pipeline returns a result whose rep_map,
\* transformed_aliases, canonical_tokens, top_k_original and
\* top_k_canonicalized are all empty; otherwise transformed_aliases holds one
\* entry per non-blank alias, in input order: entry i is the i-th non-blank
\* alias with its tokens replaced by their representatives.
C25_BlankInputAndTransformed ==
    ReturnedFrom("transform_aliases_with_canonical_tokens") =>
        LET al  == SelectSeq(call.args.aliases, HasText)
            out == ret.value
        IN  /\ al = <<>> =>
                  /\ out.rep_map = <<>>
                  /\ out.transformed_aliases = <<>>
                  /\ out.canonical_tokens = <<>>
                  /\ out.top_k_original = <<>>
                  /\ out.top_k_canonicalized = <<>>
            /\ al # <<>> =>
                  /\ Len(out.transformed_aliases) = Len(al)
                  /\ \A i \in 1..Len(al) :
                        out.transformed_aliases[i] =
                            _alias_to_transformed_string(al[i], out.rep_map)

\* The pipeline has returned for a group that mixes blank aliases with
\* others: fewer transformed aliases than input aliases, the first of them
\* empty (its alias has no alphabetic token), the next not.
C25_Witness ==
    /\ ReturnedFrom("transform_aliases_with_canonical_tokens")
    /\ Len(ret.value.transformed_aliases) = 2
    /\ Len(call.args.aliases) > 2
    /\ ret.value.transformed_aliases[1] = <<>>
    /\ ret.value.transformed_aliases[2] # <<>>

\* the ranked original aliases of a group, as process_sku_group has them
RankedOfGroup(descriptions) ==
    transform_aliases_with_canonical_tokens(descriptions, CliMaxEditDistance,
                                            CliMinRepLen, CliTopM, CliTopK).top_k_original

SeedSkus(file) == { file.rows[i].sku_id : i \in 1..Len(file.rows) }

\* the sku_ids of the approved rows of a run that take part in the merge
IncomingSkus(run) ==
    { run.approved.rows[i].sku_id :
        i \in { j \in 1..Len(run.approved.rows) : TakesPart(run.approved.rows[j]) } }

\* C27: a run that writes the seed leaves every row of the seed it found
\* whose sku_id is not among the incoming APPROVED/AUTO rows unchanged in
\* all five fields, and the sku_ids of the seed it leaves are those of the
\* seed it found together with the incoming ones.
C27_FrameOfMerge ==
    (HasRun /\ last_run.written) =>
        /\ \A i \in 1..Len(last_run.before.rows) :
              last_run.before.rows[i].sku_id \notin IncomingSkus(last_run)
                  => RowsFor(seed_file, last_run.before.rows[i].sku_id)
                         = { last_run.before.rows[i] }
        /\ SeedSkus(seed_file) = SeedSkus(last_run.before) \cup IncomingSkus(last_run)


\* version a, as a (MAJOR, MINOR) pair, is greater than version b
VersionAbove(a, b) ==
    LET x == semver_tuple(a)
        y == semver_tuple(b)
    IN  x[1] > y[1] \/ (x[1] = y[1] /\ x[2] > y[2])

\* every run so far was made without --version
AllAutoVersioned == \A n \in 1..Len(last_run.log) : last_run.log[n].auto

\* C28: a run without --version that read the seed decides on a version
\* greater, as a (MAJOR, MINOR) pair, than the version of every row it read;
\* when it writes, every version it read is matched or exceeded by a version
\* of the seed it leaves; and in a sequence of such runs no two runs that
\* each inserted or replaced a row decided on the same version.
C28_AutoVersionsGrow ==
    (/\ HasRun
     /\ last_run.version_arg = <<>>
     /\ last_run.error # "Existing seed missing columns")
    => /\ \A i \in 1..Len(last_run.before.rows) :
             VersionAbove(last_run.version, ReadCell(last_run.before.rows[i].version))
       /\ last_run.written =>
             \A i \in 1..Len(last_run.before.rows) :
                 \E j \in 1..Len(seed_file.rows) :
                     ~VersionAbove(last_run.before.rows[i].version,
                                   seed_file.rows[j].version)
       /\ AllAutoVersioned =>
             \A m \in 1..Len(last_run.log), n \in 1..Len(last_run.log) :
                 (m < n /\ last_run.log[m].changed /\ last_run.log[n].changed)
                     => last_run.log[m].version # last_run.log[n].version

\* Two runs without --version each put a row into the seed, and the seed
\* holds a row of either version, the later one the greater.
C28_Witness ==
    /\ Len(last_run.log) = 2
    /\ AllAutoVersioned
    /\ last_run.log[1].changed
    /\ last_run.log[2].changed
    /\ last_run.before.rows # <<>>
    /\ \E i \in 1..Len(seed_file.rows) : seed_file.rows[i].version = last_run.log[1].version
    /\ \E i \in 1..Len(seed_file.rows) : seed_file.rows[i].version = last_run.log[2].version
    /\ VersionAbove(last_run.log[2].version, last_run.log[1].version)


\* C29: a run whose approved CSV holds two APPROVED/AUTO rows with the same
\* sku_id writes nothing, whether the seed it found held rows or not.
C29_DuplicateBatchRejected ==
    (HasRun /\ \E sku \in SkusOf(last_run) : IncomingCount(last_run, sku) >= 2)
    => /\ ~last_run.written
       /\ seed_file = last_run.before


\* the latest run was given --version and --effective-from, and no two of
\* its APPROVED/AUTO rows carry the same sku_id
FixedStampUniqueBatch ==
    /\ HasRun
    /\ last_run.version_arg # <<>>
    /\ last_run.eff_arg # ""
    /\ \A sku \in SkusOf(last_run) : IncomingCount(last_run, sku) <= 1

\* C30: after a run with --version and --effective-from that wrote the seed
\* from an approved CSV with unique sku_ids, one more run with the same
\* approved CSV and the same arguments writes the same seed again.
C30_MergeTwiceIsMergeOnce ==
    (FixedStampUniqueBatch /\ last_run.written)
    => LET again == main(seed_file, last_run.approved, last_run.version_arg,
                         last_run.eff_arg, Today)
       IN  /\ again.written
           /\ again.file = seed_file

\* The second of two runs with --version and --effective-from found its
\* APPROVED/AUTO rows already in the seed, one stamped as it stamps them and
\* one kept from before under a greater priority, and wrote the seed it found.
C30_Witness ==
    /\ runs = 2
    /\ FixedStampUniqueBatch
    /\ last_run.written
    /\ seed_file = last_run.before
    /\ \E sku \in SkusOf(last_run) :
          /\ IncomingCount(last_run, sku) = 1
          /\ RowsFor(seed_file, sku) = IncomingFor(last_run, sku)
    /\ \E sku \in SkusOf(last_run) :
          /\ IncomingCount(last_run, sku) = 1
          /\ RowsFor(seed_file, sku) # IncomingFor(last_run, sku)

====
